---------------------------- MODULE Spec2Model ----------------------------
(***************************************************************************)
(* State-machine model of the document assistant backend:                  *)
(*   - SessionStateManager      (src/core/session.py)                      *)
(*   - OpenAIWebSocketProxy     (src/sse_proxy/sse2websocket1.py)          *)
(*   - DocumentQueryService     (src/database/document_service.py)         *)
(* Each subsystem has its own next-state relation over the shared state;   *)
(* SpecLogin, SpecToken, SpecChat, SpecDepth, SpecIndex and SpecMove are    *)
(* the specifications.                                                     *)
(***************************************************************************)
EXTENDS Integers, Sequences, FiniteSets, TLC

VARIABLES
    \* ---- SessionStateManager
    clock,           \* time.time(), in whole time units
    user_sessions,   \* self._user_sessions : username -> UserSessionData
    next_token,      \* number of uuid4 tokens handed out so far
    logins,          \* attempt_login calls in flight (each waits for self._lock)
    discarded,       \* bookkeeping: the file tokens of the DirEntry objects that
                     \* update_opened_dir has replaced
    conns,           \* the WebSocket connections to /ws/v2/chat: where each
                     \* handler stands, and the session it asked for
    \* ---- OpenAIWebSocketProxy (one WebSocket connection)
    run_state,       \* position of run(): "loop" | "ended"
    stop_event,      \* self.stop_event
    chat_task,       \* self.chat_task : 0 = attribute never assigned, else task id
    conversation_id, \* self.conversation_id
    ws_open,         \* websocket.client_state == CONNECTED
    tasks,           \* the tasks made by asyncio.create_task(self._start())
    agent_messages,  \* number of agent_message events sent on the WebSocket
    last_reply,      \* the last message run() itself sent on the WebSocket
    history,         \* self.history : the messages sent upstream
    \* ---- DocumentQueryService
    now,             \* time.time() as the index service reads it, in seconds
    fs,              \* the watched trees: <<root, relative path>> -> content
    table,           \* the rows of indexed_files
    pending_updates, \* self.pending_updates : absolute path -> timestamp
    loop_pc,         \* _debounced_update_loop: "init" (not started) | "sleep" | "upsert"
    wake_at,         \* when the loop's asyncio.sleep(self.cooldown) returns
    batch,           \* paths_to_process not yet upserted by the loop
    read_info,       \* what _get_file_info returned to the upsert in progress
    deletes,         \* _delete_document coroutines scheduled, not yet run
    last_event,      \* bookkeeping: time of the last create/modify event of a file
    expected,        \* bookkeeping: the files the index was told to hold
    moved,           \* bookkeeping: the file move whose two halves are under way
    removed,         \* bookkeeping: the directories removed and not filled again
    burst,           \* bookkeeping: per file, the events of its burst under way and
                     \* the times the loop took the path for that burst
    \* ---- FileService and the upload endpoints
    disk,            \* what is at each place of the file system
    temp_same_fs,    \* "unset" before FileService is made; then whether
                     \* self.temp_dir and self.root_dir are on one file system
    file_op,         \* the last FileService call or upload request, with its outcome
    \* ---- verify_active_session (one HTTP request) and the idle sweep
    verify,          \* where the dependency stands, its cookie and its answer
    swept,           \* bookkeeping: the scheduled job that ran last, and when
    \* ---- _handle_stream_chunk (the tool calls of one stream)
    tool_call_chunks, \* tool_call_chunks : index -> the call assembled so far
    tool_call_id,    \* self.tool_call_id
    supplied,        \* bookkeeping: index -> the ids the upstream sent for it
    synthesized      \* bookkeeping: index -> how often an id was made up for it

session_vars == <<clock, user_sessions, next_token, logins, discarded, conns>>
chat_vars    == <<run_state, stop_event, chat_task, conversation_id, ws_open,
                  tasks, agent_messages, last_reply, history>>
index_vars   == <<now, fs, table, pending_updates, loop_pc, wake_at, batch,
                  read_info, deletes, last_event, expected, moved, removed,
                  burst>>
file_vars    == <<disk, temp_same_fs, file_op>>
auth_vars    == <<verify, swept>>
delta_vars   == <<tool_call_chunks, tool_call_id, supplied, synthesized>>
vars         == <<session_vars, chat_vars, index_vars, file_vars, auth_vars,
                  delta_vars>>

(***************************************************************************)
(*                        SessionStateManager                              *)
(***************************************************************************)

\* Bounds of the session model.
MaxTime   == 3      \* the clock stops here
MaxTokens == 2      \* uuid4 tokens handed out in one behaviour
\* Scaled-down settings (seconds in the code, time units here).
InactivityTimeout    == 2   \* settings.SESSION_OVERALL_INACTIVITY_TIMEOUT_SECONDS
DownloadLinkValidity == 2   \* settings.DOWNLOAD_LINK_VALIDITY_SECONDS

Users      == {"alice", "bob"}
SessionIds == {"S1", "S2"}
Calls      == {1, 2}     \* attempt_login calls that may be in flight together
FilePaths  == {"2024/X/R.pdf", "2024/X/S.pdf"}
DocTypes   == {"PROJECT", "STANDARD", "MANAGEMENT"}
None       == <<>>      \* Python None, where the other value is <<x>>

\* FileEntry(...) as built by update_opened_file / update_opened_dir
FileEntry(tok, path, dt, exp, llm, usr) ==
    [token |-> tok, file_path |-> path, doc_type |-> dt, expire_at |-> exp,
     opened_by_llm |-> llm, opened_by_user |-> usr]

\* UserSessionData(...) as built by attempt_login; the optional
\* working_directory is a sequence holding zero or one DirEntry.  The
\* fields that are only ever written (ip_address, login_time and the
\* *_str copies of the timestamps, editing_file['user_id']) are left out.
\* A file_key is the number of the uuid4 it was cut from, 0 for "".
UserSessionData(sid, t) ==
    [session_id |-> sid, last_activity_time |-> t,
     is_websocket_connected |-> FALSE, websocket |-> 0,
     working_directory |-> <<>>, working_files |-> <<>>,
     editing_file |-> [file_key |-> 0, file_path |-> ""]]

DictPop(d, k)    == [x \in (DOMAIN d) \ {k} |-> d[x]]
DictSet(d, k, v) == [x \in (DOMAIN d) \cup {k} |-> IF x = k THEN v ELSE d[x]]

\* A WebSocket connection to /ws/v2/chat and its handler
\* websocket_chat_endpoint_v2.  st is where the handler stands: "idle" (no
\* request yet), "looked" (get_username_by_session_id has answered),
\* "accepting" (inside connect_websocket, at await websocket.accept(), the
\* lock held), "served" (proxy.run() is serving the open socket), "closing"
\* (the socket is closed, the handler is on its way to
\* disconnect_websocket), "done".  how tells the way a handler ended.
MaxConns == 2
ConnIds  == 1..MaxConns
IdleConn == [st |-> "idle", sid |-> "S1", user |-> "alice", how |-> "none",
             code |-> 0]

\* A mutation of the lock: the critical sections do not exclude each other.
LockFreeIgnored == TRUE

\* self._lock is free: it is held across an await only in connect_websocket
LockFree == \A c \in ConnIds : conns[c].st # "accepting"

\* websocket.close(code=code) by the server on the sockets in cs: a served
\* connection sees the close and its run() ends.  code is the close code
\* the server sent on a connection, 0 while it has sent none.
CloseSockets(cn, cs, code) ==
    [c \in ConnIds |-> IF c \in cs /\ cn[c].st = "served"
                       THEN [cn[c] EXCEPT !.st = "closing", !.code = code]
                       ELSE cn[c]]

\* user_data.websocket of the sessions of the users in us
SocketsOf(sessions, us) ==
    {sessions[u].websocket : u \in us \cap DOMAIN sessions} \ {0}

\* An attempt_login call: st is its position, res its return value.  peer
\* is bookkeeping: "won"/"lost" = another call for the same user ran while
\* this one was waiting and returned true/false, and the user's session has
\* stayed in place and inside the idle window since; "none" otherwise.
IdleLogin == [st |-> "idle", user |-> "alice", sid |-> "S1", res |-> FALSE,
              peer |-> "none"]

\* A mutation of the exclusive-login test: a session counts as active
\* elsewhere only when its session id differs from the new one.
IsActiveElsewhereOtherSid(sessions, username, new_session_id, current_time) ==
    /\ username \in DOMAIN sessions
    /\ sessions[username].session_id # new_session_id
    /\ (current_time - sessions[username].last_activity_time) < InactivityTimeout

\* A mutation of the exclusive-login test: the window is one unit short.
IsActiveElsewhereShort(sessions, username, new_session_id, current_time) ==
    /\ username \in DOMAIN sessions
    /\ (current_time - sessions[username].last_activity_time) < InactivityTimeout - 1

\* attempt_login lines 120-130: is_active_elsewhere
IsActiveElsewhere(sessions, username, new_session_id, current_time) ==
    /\ username \in DOMAIN sessions
    /\ (current_time - sessions[username].last_activity_time) < InactivityTimeout

\* Bookkeeping on the waiting attempt_login calls: a waiting call for user
\* u forgets its peer once u's session is missing or outside the idle window.
Disturb(ls, sessions, t) ==
    [c \in Calls |->
        IF /\ ls[c].st = "waiting"
           /\ ~ ( /\ ls[c].user \in DOMAIN sessions
                  /\ t - sessions[ls[c].user].last_activity_time < InactivityTimeout )
        THEN [ls[c] EXCEPT !.peer = "none"]
        ELSE ls[c]]

\* time passes
Tick ==
    /\ clock < MaxTime
    /\ clock' = clock + 1
    /\ logins' = Disturb(logins, user_sessions, clock + 1)
    /\ UNCHANGED <<user_sessions, next_token, discarded, conns>>

\* route.py login(): the handler calls attempt_login, which queues on the lock
LoginCall(c, u, sid) ==
    /\ logins[c].st = "idle"
    /\ \A d \in 1..(c - 1) : logins[d].st # "idle"   \* the first free slot
    /\ logins' = [logins EXCEPT ![c] =
                    [st |-> "waiting", user |-> u, sid |-> sid, res |-> FALSE,
                     peer |-> "none"]]
    /\ UNCHANGED <<clock, user_sessions, next_token, discarded, conns>>

\* attempt_login lines 132-141: the session map after the call
SessionsAfterLogin(sessions, username, new_session_id, current_time) ==
    IF IsActiveElsewhere(sessions, username, new_session_id, current_time)
    THEN sessions
    ELSE DictSet(sessions, username, UserSessionData(new_session_id, current_time))

\* The calls waiting for user u learn how a call for u just ended.
TellPeers(ls, c, u, result) ==
    [d \in Calls |->
        IF d # c /\ ls[d].st = "waiting" /\ ls[d].user = u
        THEN [ls[d] EXCEPT !.peer = IF result THEN "won" ELSE "lost"]
        ELSE ls[d]]

\* attempt_login: the body under self._lock (it holds no await)
AttemptLogin(c) ==
    /\ LockFree
    /\ logins[c].st = "waiting"
    /\ LET u      == logins[c].user
           result == ~IsActiveElsewhere(user_sessions, u, logins[c].sid, clock)
       IN /\ user_sessions' = SessionsAfterLogin(user_sessions, u, logins[c].sid, clock)
          /\ logins' = [TellPeers(logins, c, u, result) EXCEPT
                           ![c].st = "done", ![c].res = result]
    /\ UNCHANGED <<clock, next_token, discarded, conns>>

\* route.py login() run from call to response with no other request in
\* between: attempt_login and the answer in one step
Login(u, sid) ==
    /\ LockFree
    /\ user_sessions' = SessionsAfterLogin(user_sessions, u, sid, clock)
    /\ logins' = TellPeers(logins, 0, u,
                           ~IsActiveElsewhere(user_sessions, u, sid, clock))
    /\ UNCHANGED <<clock, next_token, discarded, conns>>

\* route.py login(): the response (200 or 409) is sent
LoginReturn(c) ==
    /\ logins[c].st = "done"
    /\ logins' = [logins EXCEPT ![c] = IdleLogin]
    /\ UNCHANGED <<clock, user_sessions, next_token, discarded, conns>>

\* A mutation of logout_user: the WebSocket is closed and the session is
\* left in the map.
LogoutUserKeepsSession(u) ==
    /\ LockFree
    /\ user_sessions' = IF u \in DOMAIN user_sessions
                        THEN [user_sessions EXCEPT ![u].is_websocket_connected = FALSE,
                                                   ![u].websocket = 0]
                        ELSE user_sessions
    /\ conns' = CloseSockets(conns, SocketsOf(user_sessions, {u}), 1000)
    /\ logins' = Disturb(logins, user_sessions', clock)
    /\ UNCHANGED <<clock, next_token, discarded>>

\* logout_user
LogoutUser(u) ==
    /\ LockFree
    /\ user_sessions' = IF u \in DOMAIN user_sessions
                        THEN DictPop(user_sessions, u) ELSE user_sessions
    /\ conns' = CloseSockets(conns, SocketsOf(user_sessions, {u}), 1000)
    /\ logins' = Disturb(logins, user_sessions', clock)
    /\ UNCHANGED <<clock, next_token, discarded>>

\* connect_websocket in one step, for a connection whose handler is not
\* followed further (it is written as connection 1)
ConnectWebsocket(u, sid) ==
    /\ LockFree
    /\ user_sessions' =
          IF u \in DOMAIN user_sessions /\ user_sessions[u].session_id = sid
          THEN [user_sessions EXCEPT ![u].is_websocket_connected = TRUE,
                                     ![u].websocket = 1]
          ELSE user_sessions
    /\ UNCHANGED <<clock, next_token, logins, discarded, conns>>

\* disconnect_websocket
DisconnectWebsocket(u) ==
    /\ LockFree
    /\ user_sessions' =
          IF u \in DOMAIN user_sessions
          THEN [user_sessions EXCEPT ![u].is_websocket_connected = FALSE,
                                     ![u].websocket = 0]
          ELSE user_sessions
    /\ UNCHANGED <<clock, next_token, logins, discarded, conns>>

\* get_username_by_session_id: the first user whose session carries the id
\* (session ids are unique to a user here), None otherwise
GetUsernameBySessionId(sid) ==
    LET hits == {u \in DOMAIN user_sessions : user_sessions[u].session_id = sid}
    IN IF hits = {} THEN None ELSE <<CHOOSE u \in hits : TRUE>>

\* websocket_chat_endpoint_v2 up to the call of connect_websocket: an
\* unknown session id is answered by accept and close(1008)
WsRequest(c, sid) ==
    /\ LockFree
    /\ conns[c].st = "idle"
    /\ \A d \in 1..(c - 1) : conns[d].st # "idle"
    /\ LET username == GetUsernameBySessionId(sid)
       IN conns' = [conns EXCEPT ![c] =
             IF username = None
             THEN [st |-> "done", sid |-> sid, user |-> "alice", how |-> "no_session",
                   code |-> 1008]
             ELSE [st |-> "looked", sid |-> sid, user |-> username[1], how |-> "none",
                   code |-> 0]]
    /\ UNCHANGED <<clock, user_sessions, next_token, logins, discarded>>

\* A mutation of connect_websocket: when the test fails, the session the
\* user has is dropped from the map.
WsConnectDropsSession(c) ==
    /\ LockFree
    /\ conns[c].st = "looked"
    /\ LET u  == conns[c].user
           ok == u \in DOMAIN user_sessions /\ user_sessions[u].session_id = conns[c].sid
       IN /\ conns' = [conns EXCEPT ![c] =
                IF ok THEN [@ EXCEPT !.st = "accepting"]
                ELSE [@ EXCEPT !.st = "done", !.how = "rejected", !.code = 1008]]
          /\ user_sessions' = IF ~ok /\ u \in DOMAIN user_sessions
                              THEN DictPop(user_sessions, u) ELSE user_sessions
    /\ UNCHANGED <<clock, next_token, logins, discarded>>

\* connect_websocket takes the lock and tests the session: on a match it
\* goes on to await websocket.accept() with the lock held, otherwise it
\* closes the socket (1008) and the handler returns
WsConnect(c) ==
    /\ LockFree
    /\ conns[c].st = "looked"
    /\ LET u == conns[c].user
       IN conns' = [conns EXCEPT ![c] =
             IF u \in DOMAIN user_sessions /\ user_sessions[u].session_id = conns[c].sid
             THEN [@ EXCEPT !.st = "accepting"]
             ELSE [@ EXCEPT !.st = "done", !.how = "rejected", !.code = 1008]]
    /\ UNCHANGED <<clock, user_sessions, next_token, logins, discarded>>

\* accept() returns: the socket is written into user_data, the object that
\* was tested (if it has left the map meanwhile the map is not changed),
\* the lock is released and proxy.run() starts
WsAccepted(c) ==
    /\ conns[c].st = "accepting"
    /\ LET u == conns[c].user
       IN user_sessions' =
             IF u \in DOMAIN user_sessions /\ user_sessions[u].session_id = conns[c].sid
             THEN [user_sessions EXCEPT ![u].is_websocket_connected = TRUE,
                                        ![u].websocket = c]
             ELSE user_sessions
    /\ conns' = [conns EXCEPT ![c].st = "served"]
    /\ UNCHANGED <<clock, next_token, logins, discarded>>

\* the client closes the socket: receive_json raises WebSocketDisconnect
\* and run() returns
WsClientClose(c) ==
    /\ conns[c].st = "served"
    /\ conns' = [conns EXCEPT ![c].st = "closing"]
    /\ UNCHANGED <<clock, user_sessions, next_token, logins, discarded>>

\* the finally clause of the handler: disconnect_websocket(username)
WsDetach(c) ==
    /\ LockFree
    /\ conns[c].st = "closing"
    /\ LET u == conns[c].user
       IN user_sessions' =
             IF u \in DOMAIN user_sessions
             THEN [user_sessions EXCEPT ![u].is_websocket_connected = FALSE,
                                        ![u].websocket = 0]
             ELSE user_sessions
    /\ conns' = [conns EXCEPT ![c].st = "done", ![c].how = "detached"]
    /\ UNCHANGED <<clock, next_token, logins, discarded>>

\* set_http_activity
SetHttpActivity(u) ==
    /\ LockFree
    /\ u \in DOMAIN user_sessions
    /\ user_sessions' = [user_sessions EXCEPT ![u].last_activity_time = clock]
    /\ UNCHANGED <<clock, next_token, logins, discarded, conns>>

\* clear_working_directory
ClearWorkingDirectory(u) ==
    /\ LockFree
    /\ u \in DOMAIN user_sessions
    /\ user_sessions' = [user_sessions EXCEPT ![u].working_directory = <<>>]
    /\ UNCHANGED <<clock, next_token, logins, discarded, conns>>

\* update_opened_file
UpdateOpenedFile(u, path, llm, dt) ==
    /\ LockFree
    /\ u \in DOMAIN user_sessions
    /\ next_token < MaxTokens
    /\ LET entry == FileEntry(next_token + 1, path, dt,
                              clock + DownloadLinkValidity, llm, TRUE)
       IN user_sessions' = [user_sessions EXCEPT ![u].working_files =
                               Append(@, entry)]
    /\ next_token' = next_token + 1
    /\ UNCHANGED <<clock, logins, discarded, conns>>

\* the file tokens of a user's present DirEntry
DirTokens(data) ==
    IF data.working_directory = <<>> THEN {}
    ELSE {data.working_directory[1].files[i].token :
             i \in 1..Len(data.working_directory[1].files)}

\* A mutation of update_opened_dir: the new file entries are added to those
\* of the present DirEntry instead of taking their place.
UpdateOpenedDirMerge(u, dir, files) ==
    /\ LockFree
    /\ u \in DOMAIN user_sessions
    /\ next_token + Len(files) <= MaxTokens
    /\ LET exp     == clock + DownloadLinkValidity
           entries == [i \in 1..Len(files) |->
                         FileEntry(next_token + i, files[i], "PROJECT", exp,
                                   FALSE, FALSE)]
           kept    == IF user_sessions[u].working_directory = <<>> THEN <<>>
                      ELSE user_sessions[u].working_directory[1].files
           entry   == [directory |-> dir, expire_at |-> exp, files |-> kept \o entries]
       IN user_sessions' = [user_sessions EXCEPT ![u].working_directory = <<entry>>]
    /\ discarded' = discarded \cup DirTokens(user_sessions[u])
    /\ next_token' = next_token + Len(files)
    /\ UNCHANGED <<clock, logins, conns>>

\* update_opened_dir: one fresh token per file.  The directory token is a
\* further uuid4 that no method of the manager ever reads; it is left out.
UpdateOpenedDir(u, dir, files) ==
    /\ LockFree
    /\ u \in DOMAIN user_sessions
    /\ next_token + Len(files) <= MaxTokens
    /\ LET exp     == clock + DownloadLinkValidity
           entries == [i \in 1..Len(files) |->
                         FileEntry(next_token + i, files[i], "PROJECT", exp,
                                   FALSE, FALSE)]
           entry   == [directory |-> dir, expire_at |-> exp, files |-> entries]
       IN user_sessions' = [user_sessions EXCEPT ![u].working_directory = <<entry>>]
    /\ discarded' = discarded \cup DirTokens(user_sessions[u])
    /\ next_token' = next_token + Len(files)
    /\ UNCHANGED <<clock, logins, conns>>

\* A mutation of cleanup_expired_opened_files: a working directory is kept
\* when its expire_at has passed.
CleanupExpiredOpenedFilesKeepsDir ==
    /\ LockFree
    /\ user_sessions' = [u \in DOMAIN user_sessions |->
          [user_sessions[u] EXCEPT
             !.working_files = SelectSeq(@, LAMBDA e : clock < e.expire_at)]]
    /\ UNCHANGED <<clock, next_token, logins, discarded, conns>>

\* A mutation of cleanup_expired_opened_files: an opened file is dropped one
\* time unit before its expire_at.
CleanupExpiredOpenedFilesEarly ==
    /\ LockFree
    /\ user_sessions' = [u \in DOMAIN user_sessions |->
          [user_sessions[u] EXCEPT
             !.working_files = SelectSeq(@, LAMBDA e : clock + 1 < e.expire_at),
             !.working_directory =
                 IF @ # <<>> /\ clock >= @[1].expire_at THEN <<>> ELSE @]]
    /\ UNCHANGED <<clock, next_token, logins, discarded, conns>>

\* cleanup_expired_opened_files
CleanupExpiredOpenedFiles ==
    /\ LockFree
    /\ user_sessions' = [u \in DOMAIN user_sessions |->
          [user_sessions[u] EXCEPT
             !.working_files = SelectSeq(@, LAMBDA e : clock < e.expire_at),
             !.working_directory =
                 IF @ # <<>> /\ clock >= @[1].expire_at THEN <<>> ELSE @]]
    /\ UNCHANGED <<clock, next_token, logins, discarded, conns>>

\* A mutation of process_inactive_sessions: a session is swept only when it
\* has been idle for longer than the timeout.
ProcessInactiveSessionsStrict ==
    /\ LockFree
    /\ LET users_to_logout ==
              {u \in DOMAIN user_sessions :
                 (clock - user_sessions[u].last_activity_time) > InactivityTimeout}
       IN /\ user_sessions' = [u \in (DOMAIN user_sessions) \ users_to_logout |->
                                  user_sessions[u]]
          /\ conns' = CloseSockets(conns, SocketsOf(user_sessions, users_to_logout), 1001)
    /\ logins' = Disturb(logins, user_sessions', clock)
    /\ UNCHANGED <<clock, next_token, discarded>>

\* process_inactive_sessions
ProcessInactiveSessions ==
    /\ LockFree
    /\ LET users_to_logout ==
              {u \in DOMAIN user_sessions :
                 (clock - user_sessions[u].last_activity_time) >= InactivityTimeout}
       IN /\ user_sessions' = [u \in (DOMAIN user_sessions) \ users_to_logout |->
                                  user_sessions[u]]
          /\ conns' = CloseSockets(conns, SocketsOf(user_sessions, users_to_logout), 1001)
    /\ logins' = Disturb(logins, user_sessions', clock)
    /\ UNCHANGED <<clock, next_token, discarded>>

\* The first entry of a sequence of FileEntry carrying the token, as
\* next((entry for entry in ... if entry.token == token_to_find), None)
FirstWithToken(entries, tok) ==
    LET hits == SelectSeq(entries, LAMBDA e : e.token = tok)
    IN IF hits = <<>> THEN <<>> ELSE <<hits[1]>>

\* What get_downloadable_file_info does with one session of its scan:
\* hit = the scan ends here, info = the value returned (None or the dict).
\* Neither branch reads expire_at.
LookupInSession(data, tok) ==
    LET inFiles == FirstWithToken(data.working_files, tok)
        inDir   == IF data.working_directory = <<>> THEN <<>>
                   ELSE FirstWithToken(data.working_directory[1].files, tok)
    IN IF inFiles # <<>>
       THEN IF inFiles[1].doc_type \in {"PROJECT", "STANDARD"}
            THEN [hit |-> TRUE,
                  info |-> <<[token |-> tok, path |-> inFiles[1].file_path,
                              root |-> inFiles[1].doc_type,
                              expires_at |-> inFiles[1].expire_at]>>]
            ELSE [hit |-> TRUE, info |-> None]
       ELSE IF inDir # <<>>
            THEN [hit |-> TRUE,
                  info |-> <<[token |-> tok, path |-> inDir[1].file_path,
                              root |-> "PROJECT",
                              expires_at |-> inDir[1].expire_at]>>]
            ELSE [hit |-> FALSE, info |-> None]

\* get_downloadable_file_info: None, or <<info>>.  Tokens are unique, so at
\* most one session holds the token and the order of the scan over the
\* dict does not matter.
GetDownloadableFileInfo(tok) ==
    LET holders == {u \in DOMAIN user_sessions :
                       LookupInSession(user_sessions[u], tok).hit}
    IN IF holders = {} THEN None
       ELSE LookupInSession(user_sessions[CHOOSE u \in holders : TRUE], tok).info

\* route.py download_file_via_token: the status answered for a token
\* (the file is taken to exist on disk)
DownloadStatus(tok) ==
    IF GetDownloadableFileInfo(tok) = None THEN 404 ELSE 200

DirFileLists == {<<>>} \cup {<<p>> : p \in FilePaths}

\* Document types the tools pass to update_opened_file here; directory
\* entries are always "PROJECT", so all three branches of the lookup occur.
OpenedDocTypes == {"STANDARD", "MANAGEMENT"}

\* Login, presence and idle-timeout side of the manager: concurrent
\* attempt_login calls against logout, WebSocket attach/detach, activity
\* stamps and the idle sweep.
NextLogin ==
    \/ Tick /\ UNCHANGED <<chat_vars, index_vars, file_vars, auth_vars, delta_vars>>
    \/ \E c \in Calls, u \in Users, sid \in SessionIds :
          LoginCall(c, u, sid) /\ UNCHANGED <<chat_vars, index_vars, file_vars, auth_vars, delta_vars>>
    \/ \E c \in Calls : AttemptLogin(c) /\ UNCHANGED <<chat_vars, index_vars, file_vars, auth_vars, delta_vars>>
    \/ \E c \in Calls : LoginReturn(c) /\ UNCHANGED <<chat_vars, index_vars, file_vars, auth_vars, delta_vars>>
    \/ \E u \in Users : LogoutUser(u) /\ UNCHANGED <<chat_vars, index_vars, file_vars, auth_vars, delta_vars>>
    \/ \E u \in Users, sid \in SessionIds :
          ConnectWebsocket(u, sid) /\ UNCHANGED <<chat_vars, index_vars, file_vars, auth_vars, delta_vars>>
    \/ \E u \in Users : DisconnectWebsocket(u) /\ UNCHANGED <<chat_vars, index_vars, file_vars, auth_vars, delta_vars>>
    \/ \E u \in Users : SetHttpActivity(u) /\ UNCHANGED <<chat_vars, index_vars, file_vars, auth_vars, delta_vars>>
    \/ ProcessInactiveSessions /\ UNCHANGED <<chat_vars, index_vars, file_vars, auth_vars, delta_vars>>

\* Working-set side of the manager: download tokens, their expiry and the
\* sweepers, with logins issued one at a time.
NextToken ==
    \/ Tick /\ UNCHANGED <<chat_vars, index_vars, file_vars, auth_vars, delta_vars>>
    \/ \E u \in Users : Login(u, "S1") /\ UNCHANGED <<chat_vars, index_vars, file_vars, auth_vars, delta_vars>>
    \/ \E u \in Users : LogoutUser(u) /\ UNCHANGED <<chat_vars, index_vars, file_vars, auth_vars, delta_vars>>
    \/ \E u \in Users : ClearWorkingDirectory(u) /\ UNCHANGED <<chat_vars, index_vars, file_vars, auth_vars, delta_vars>>
    \/ \E u \in Users, p \in FilePaths, dt \in OpenedDocTypes :
          UpdateOpenedFile(u, p, TRUE, dt) /\ UNCHANGED <<chat_vars, index_vars, file_vars, auth_vars, delta_vars>>
    \/ \E u \in Users, fl \in DirFileLists :
          UpdateOpenedDir(u, "2024/X", fl) /\ UNCHANGED <<chat_vars, index_vars, file_vars, auth_vars, delta_vars>>
    \/ CleanupExpiredOpenedFiles /\ UNCHANGED <<chat_vars, index_vars, file_vars, auth_vars, delta_vars>>
    \/ ProcessInactiveSessions /\ UNCHANGED <<chat_vars, index_vars, file_vars, auth_vars, delta_vars>>

\* The WebSocket connections of one user against login, logout, activity
\* stamps and the idle sweep.
NextWebsocket ==
    \/ Tick /\ UNCHANGED <<chat_vars, index_vars, file_vars, auth_vars, delta_vars>>
    \/ \E sid \in SessionIds : Login("alice", sid) /\ UNCHANGED <<chat_vars, index_vars, file_vars, auth_vars, delta_vars>>
    \/ LogoutUser("alice") /\ UNCHANGED <<chat_vars, index_vars, file_vars, auth_vars, delta_vars>>
    \/ SetHttpActivity("alice") /\ UNCHANGED <<chat_vars, index_vars, file_vars, auth_vars, delta_vars>>
    \/ ProcessInactiveSessions /\ UNCHANGED <<chat_vars, index_vars, file_vars, auth_vars, delta_vars>>
    \/ \E c \in ConnIds, sid \in SessionIds :
          WsRequest(c, sid) /\ UNCHANGED <<chat_vars, index_vars, file_vars, auth_vars, delta_vars>>
    \/ \E c \in ConnIds : WsConnect(c) /\ UNCHANGED <<chat_vars, index_vars, file_vars, auth_vars, delta_vars>>
    \/ \E c \in ConnIds : WsAccepted(c) /\ UNCHANGED <<chat_vars, index_vars, file_vars, auth_vars, delta_vars>>
    \/ \E c \in ConnIds : WsClientClose(c) /\ UNCHANGED <<chat_vars, index_vars, file_vars, auth_vars, delta_vars>>
    \/ \E c \in ConnIds : WsDetach(c) /\ UNCHANGED <<chat_vars, index_vars, file_vars, auth_vars, delta_vars>>

\* The working set of one user through a session's life: tokens issued for
\* opened files and for the working directory, the directory replaced or
\* cleared, the sweepers, logout and a new login.
NextWorkingSet ==
    \/ Tick /\ UNCHANGED <<chat_vars, index_vars, file_vars, auth_vars, delta_vars>>
    \/ Login("alice", "S1") /\ UNCHANGED <<chat_vars, index_vars, file_vars, auth_vars, delta_vars>>
    \/ LogoutUser("alice") /\ UNCHANGED <<chat_vars, index_vars, file_vars, auth_vars, delta_vars>>
    \/ ClearWorkingDirectory("alice") /\ UNCHANGED <<chat_vars, index_vars, file_vars, auth_vars, delta_vars>>
    \/ \E p \in FilePaths, dt \in OpenedDocTypes :
          UpdateOpenedFile("alice", p, TRUE, dt) /\ UNCHANGED <<chat_vars, index_vars, file_vars, auth_vars, delta_vars>>
    \/ \E fl \in DirFileLists :
          UpdateOpenedDir("alice", "2024/X", fl) /\ UNCHANGED <<chat_vars, index_vars, file_vars, auth_vars, delta_vars>>
    \/ CleanupExpiredOpenedFiles /\ UNCHANGED <<chat_vars, index_vars, file_vars, auth_vars, delta_vars>>
    \/ ProcessInactiveSessions /\ UNCHANGED <<chat_vars, index_vars, file_vars, auth_vars, delta_vars>>

(***************************************************************************)
(*                 OpenAIWebSocketProxy (one connection)                   *)
(***************************************************************************)

MaxDepth   == 5     \* _handle_stream(..., max_depth: int = 5)
MaxQueries == 2     \* queries received on the connection
MaxDeltas  == 2     \* content deltas forwarded on the connection
MaxRounds  == 2     \* tool rounds the upstream asks for in one turn (NextChat)

TaskIds == 1..MaxQueries

\* A task made by create_task(self._start()).  pc is the await it is
\* suspended at: "created" (not yet run), "create" (the upstream
\* chat.completions.create), "stream" (the next chunk), "tools"
\* (_execute_tool_calls), or "done".  depth is the depth of the innermost
\* _handle_stream frame (0 again once the frames have returned), cancel is
\* a Task.cancel() not yet delivered, errs / ends count the {type: error}
\* and message_end events the task has sent, how tells the way it ended.
\* calls is final_tool_calls of the frame that is running its tools.
NewTask == [pc |-> "created", depth |-> 0, cancel |-> FALSE,
            errs |-> 0, ends |-> 0, how |-> "running", calls |-> <<>>]

\* The messages of self.history.  calls is the tool_calls of an assistant
\* message, id the tool_call_id of a tool message, content what a tool
\* message holds: the tool's "result", or the "[工具错误]" text made for
\* arguments that are not JSON ("json_error") or a tool that raised
\* ("tool_error").
SystemMessage == [role |-> "system", calls |-> <<>>, id |-> 0, content |-> "text"]

UserMessage == [role |-> "user", calls |-> <<>>, id |-> 0, content |-> "text"]

AssistantMessage(calls) == [role |-> "assistant", calls |-> calls, id |-> 0, content |-> "text"]

ToolMessage(id, content) == [role |-> "tool", calls |-> <<>>, id |-> id, content |-> content]

\* A tool call as _handle_stream_chunk put it together: its id (never
\* empty: the upstream's or a number of self.tool_call_id), whether a
\* function name arrived, whether its arguments parse as JSON, and whether
\* the tool raises when called.
ToolCall(id, named, json_ok, raises) ==
    [id |-> id, named |-> named, json_ok |-> json_ok, raises |-> raises]

\* the tool_calls a response may end with at depth d of task t: one call
\* that runs, one with bad arguments, one whose tool raises, one without a
\* name, or a call that runs followed by one without a name
CallId(t, d, i) == 100 * t + 10 * d + i

CallLists(t, d) ==
    { <<ToolCall(CallId(t, d, 1), TRUE, TRUE, FALSE)>>,
      <<ToolCall(CallId(t, d, 1), TRUE, FALSE, FALSE)>>,
      <<ToolCall(CallId(t, d, 1), TRUE, TRUE, TRUE)>>,
      <<ToolCall(CallId(t, d, 1), FALSE, TRUE, FALSE)>>,
      <<ToolCall(CallId(t, d, 1), TRUE, TRUE, FALSE),
        ToolCall(CallId(t, d, 2), FALSE, TRUE, FALSE)>> }

\* _execute_tool_calls: a call without a name is skipped; every other
\* call gives one tool message, whatever became of it
RECURSIVE ExecuteToolCalls(_)
ExecuteToolCalls(calls) ==
    IF calls = <<>> THEN <<>>
    ELSE LET call == Head(calls)
             tool_output == IF ~call.json_ok THEN "json_error"
                            ELSE IF call.raises THEN "tool_error" ELSE "result"
         IN IF ~call.named
            THEN ExecuteToolCalls(Tail(calls))
            ELSE <<ToolMessage(call.id, tool_output)>> \o ExecuteToolCalls(Tail(calls))

\* A mutation of the depth guard: off by one.
TooDeepLate(depth) == depth > MaxDepth + 1

\* _handle_stream line 109: if depth > max_depth
TooDeep(depth) == depth > MaxDepth

\* A mutation of the per-chunk check: the stop flag is not looked at.
ShouldAbortWsOnly(stop, open) == ~open

\* _handle_stream line 130: stop_event.is_set() or the socket not CONNECTED
ShouldAbort(stop, open) == stop \/ ~open

\* _start's finally: message_end goes through _send_event_to_websocket,
\* which sends when the socket is up and otherwise calls _stop()
Finish(rec, how) ==
    [rec EXCEPT !.pc = "done", !.how = how, !.depth = 0, !.cancel = FALSE,
                !.calls = <<>>,
                !.ends = IF ws_open THEN @ + 1 ELSE @]

\* stop_event after a step that called _send_event_to_websocket
StopAfterSend == stop_event \/ ~ws_open

\* run(), "query" branch: _stop(); stop_event.clear(); conversation id;
\* history; create_task(self._start()).  The previous task is left alone.
RecvQuery(cid) ==
    /\ run_state = "loop" /\ ws_open
    /\ Len(tasks) < MaxQueries
    /\ stop_event' = FALSE
    /\ conversation_id' = cid
    /\ tasks' = Append(tasks, NewTask)
    /\ chat_task' = Len(tasks) + 1
    /\ history' = Append(history, UserMessage)
    /\ UNCHANGED <<run_state, ws_open, agent_messages, last_reply>>

\* run(), "stop_chat_stream" branch.  self.chat_task is first assigned by
\* the query branch: before that, reading it raises AttributeError, which
\* the outer except turns into _stop() and the end of run().
RecvStop ==
    /\ run_state = "loop" /\ ws_open
    /\ stop_event' = TRUE
    /\ IF chat_task = 0
       THEN /\ run_state' = "ended"
            /\ UNCHANGED <<tasks, last_reply>>
       ELSE /\ tasks' = [tasks EXCEPT ![chat_task].cancel =
                            (tasks[chat_task].pc # "done") \/ @]
            /\ last_reply' = "stop_request_processed"
            /\ UNCHANGED run_state
    /\ UNCHANGED <<chat_task, conversation_id, ws_open, agent_messages, history>>

\* run(), "start_conversation" branch
RecvStartConversation(cid) ==
    /\ run_state = "loop" /\ ws_open
    /\ conversation_id' = cid
    /\ history' = <<SystemMessage>>
    /\ UNCHANGED <<run_state, stop_event, chat_task, ws_open, tasks, agent_messages,
                   last_reply>>

\* run(), else branch: {"type": "error", "content": "未知请求类型"}
RecvUnknown ==
    /\ run_state = "loop" /\ ws_open
    /\ last_reply' = "error"
    /\ UNCHANGED <<run_state, stop_event, chat_task, conversation_id, ws_open, tasks,
                   agent_messages, history>>

\* the client goes away: receive_json raises WebSocketDisconnect; _stop()
ClientDisconnect ==
    /\ run_state = "loop" /\ ws_open
    /\ ws_open' = FALSE
    /\ stop_event' = TRUE
    /\ run_state' = "ended"
    /\ UNCHANGED <<chat_task, conversation_id, tasks, agent_messages, last_reply, history>>

\* The event loop runs the task for the first time.  A task cancelled
\* before its first step gets CancelledError thrown into the coroutine
\* before its body starts: neither the try nor the finally of _start runs.
\* Otherwise _start enters _handle_stream(history) up to the upstream call.
TaskStart(t) ==
    /\ tasks[t].pc = "created"
    /\ tasks' = [tasks EXCEPT ![t] =
          IF @.cancel THEN [@ EXCEPT !.pc = "done", !.how = "never_ran", !.cancel = FALSE]
          ELSE [@ EXCEPT !.pc = "create"]]
    /\ UNCHANGED <<run_state, stop_event, chat_task, conversation_id, ws_open,
                   agent_messages, last_reply, history>>

\* CancelledError is thrown at the await the task is suspended at, passes
\* through _handle_stream and is caught by _start; finally: message_end.
TaskCancelled(t) ==
    /\ tasks[t].pc \in {"create", "stream", "tools"}
    /\ tasks[t].cancel
    /\ tasks' = [tasks EXCEPT ![t] = Finish(@, "cancelled")]
    /\ stop_event' = StopAfterSend
    /\ UNCHANGED <<run_state, chat_task, conversation_id, ws_open, agent_messages,
                   last_reply, history>>

\* chat.completions.create returns the stream, or raises: the error event
\* is sent, _handle_stream returns None, finally: message_end.
CreateReturns(t, ok) ==
    /\ tasks[t].pc = "create"
    /\ ~tasks[t].cancel
    /\ IF ok
       THEN /\ tasks' = [tasks EXCEPT ![t].pc = "stream"]
            /\ UNCHANGED stop_event
       ELSE /\ tasks' = [tasks EXCEPT ![t] =
                  Finish([@ EXCEPT !.errs = IF ws_open THEN @ + 1 ELSE @],
                         "upstream_error")]
            /\ stop_event' = StopAfterSend
    /\ UNCHANGED <<run_state, chat_task, conversation_id, ws_open, agent_messages,
                   last_reply, history>>

ChunkKinds == {"content", "finish_tool_calls", "finish_stop", "end_of_stream",
               "stream_error"}

\* One turn of "async for chunk in stream": the stream ends or raises, or
\* a chunk arrives, the stop check is made, the chunk is handled.
Chunk(t, kind) ==
    /\ tasks[t].pc = "stream"
    /\ ~tasks[t].cancel
    /\ kind = "content" => agent_messages < MaxDeltas
    /\ LET rec == tasks[t] IN
       CASE kind = "end_of_stream" ->
              /\ tasks' = [tasks EXCEPT ![t] = Finish(rec, "normal")]
              /\ stop_event' = StopAfterSend
              /\ UNCHANGED <<agent_messages, history>>
         [] kind = "stream_error" ->
              /\ tasks' = [tasks EXCEPT ![t] = Finish(rec, "stream_error")]
              /\ stop_event' = StopAfterSend
              /\ UNCHANGED <<agent_messages, history>>
         [] kind \notin {"end_of_stream", "stream_error"}
              /\ ShouldAbort(stop_event, ws_open) ->
              /\ tasks' = [tasks EXCEPT ![t] = Finish(rec, "stopped")]
              /\ stop_event' = StopAfterSend
              /\ UNCHANGED <<agent_messages, history>>
         [] kind = "content" /\ ~ShouldAbort(stop_event, ws_open) ->
              /\ agent_messages' = IF ws_open THEN agent_messages + 1 ELSE agent_messages
              /\ stop_event' = StopAfterSend
              /\ UNCHANGED <<tasks, history>>
         [] kind = "finish_tool_calls" /\ ~ShouldAbort(stop_event, ws_open) ->
              /\ \E final_tool_calls \in CallLists(t, rec.depth) :
                    /\ tasks' = [tasks EXCEPT ![t].pc = "tools",
                                              ![t].calls = final_tool_calls]
                    /\ history' = Append(history, AssistantMessage(final_tool_calls))
              /\ UNCHANGED <<stop_event, agent_messages>>
         [] kind = "finish_stop" /\ ~ShouldAbort(stop_event, ws_open) ->
              /\ tasks' = [tasks EXCEPT ![t] = Finish(rec, "normal")]
              /\ history' = Append(history, AssistantMessage(<<>>))
              /\ stop_event' = StopAfterSend
              /\ UNCHANGED agent_messages
    /\ UNCHANGED <<run_state, chat_task, conversation_id, ws_open, last_reply>>

\* _execute_tool_calls returns: agent_thought is sent and _handle_stream
\* calls itself with depth + 1.  Past the guard the string it returns is
\* handed back up the frames to _start, which drops it; finally: message_end.
ToolsReturn(t) ==
    /\ tasks[t].pc = "tools"
    /\ ~tasks[t].cancel
    /\ tasks' = [tasks EXCEPT ![t] =
          IF TooDeep(@.depth + 1)
          THEN Finish(@, "too_deep")
          ELSE [@ EXCEPT !.depth = @ + 1, !.pc = "create", !.calls = <<>>]]
    /\ history' = history \o ExecuteToolCalls(tasks[t].calls)
    /\ stop_event' = StopAfterSend
    /\ UNCHANGED <<run_state, chat_task, conversation_id, ws_open, agent_messages,
                   last_reply>>

ConversationIds == {"conv-1"}

\* the upstream asks for tools that are there, with arguments that parse
PlainCalls(calls) ==
    \A i \in DOMAIN calls : calls[i].named /\ calls[i].json_ok /\ ~calls[i].raises

\* what run() does with a message other than a query, and the client leaving
ChatMessages ==
    \/ RecvStop /\ UNCHANGED <<session_vars, index_vars, file_vars, auth_vars, delta_vars>>
    \/ \E cid \in ConversationIds :
          RecvStartConversation(cid) /\ UNCHANGED <<session_vars, index_vars, file_vars, auth_vars, delta_vars>>
    \/ RecvUnknown /\ UNCHANGED <<session_vars, index_vars, file_vars, auth_vars, delta_vars>>
    \/ ClientDisconnect /\ UNCHANGED <<session_vars, index_vars, file_vars, auth_vars, delta_vars>>

\* the steps of the completion tasks other than the stream's chunks
ChatTasks ==
    \/ \E t \in DOMAIN tasks : TaskStart(t) /\ UNCHANGED <<session_vars, index_vars, file_vars, auth_vars, delta_vars>>
    \/ \E t \in DOMAIN tasks : TaskCancelled(t) /\ UNCHANGED <<session_vars, index_vars, file_vars, auth_vars, delta_vars>>
    \/ \E t \in DOMAIN tasks, ok \in BOOLEAN :
          CreateReturns(t, ok) /\ UNCHANGED <<session_vars, index_vars, file_vars, auth_vars, delta_vars>>
    \/ \E t \in DOMAIN tasks : ToolsReturn(t) /\ UNCHANGED <<session_vars, index_vars, file_vars, auth_vars, delta_vars>>

\* Several queries on the connection; the upstream asks for tools at most
\* MaxRounds times in a turn.
NextChat ==
    \/ ChatMessages
    \/ ChatTasks
    \/ \E cid \in ConversationIds : RecvQuery(cid) /\ UNCHANGED <<session_vars, index_vars, file_vars, auth_vars, delta_vars>>
    \/ \E t \in DOMAIN tasks, kind \in ChunkKinds :
          /\ kind = "finish_tool_calls" => tasks[t].depth < MaxRounds
          /\ Chunk(t, kind)
          /\ PlainCalls(tasks'[t].calls)
          /\ UNCHANGED <<session_vars, index_vars, file_vars, auth_vars, delta_vars>>

\* One query on the connection; the upstream asks for tools as often as it
\* likes.
NextDepth ==
    \/ ChatMessages
    \/ ChatTasks
    \/ \E cid \in ConversationIds :
          /\ tasks = << >>
          /\ RecvQuery(cid)
          /\ UNCHANGED <<session_vars, index_vars, file_vars, auth_vars, delta_vars>>
    \/ \E t \in DOMAIN tasks, kind \in ChunkKinds :
          Chunk(t, kind) /\ PlainCalls(tasks'[t].calls)
                         /\ UNCHANGED <<session_vars, index_vars, file_vars, auth_vars, delta_vars>>

\* One query on the connection; the upstream asks for tools at most
\* MaxRounds times, with tool calls of every kind.
NextTools ==
    \/ ChatMessages
    \/ ChatTasks
    \/ \E cid \in ConversationIds :
          /\ tasks = << >>
          /\ RecvQuery(cid)
          /\ UNCHANGED <<session_vars, index_vars, file_vars, auth_vars, delta_vars>>
    \/ \E t \in DOMAIN tasks, kind \in ChunkKinds :
          /\ kind = "finish_tool_calls" => tasks[t].depth < MaxRounds
          /\ Chunk(t, kind)
          /\ UNCHANGED <<session_vars, index_vars, file_vars, auth_vars, delta_vars>>

\* Several queries and stop requests on the connection; the upstream
\* answers with text only.
NextStop ==
    \/ RecvStop /\ UNCHANGED <<session_vars, index_vars, file_vars, auth_vars, delta_vars>>
    \/ ClientDisconnect /\ UNCHANGED <<session_vars, index_vars, file_vars, auth_vars, delta_vars>>
    \/ \E cid \in ConversationIds : RecvQuery(cid) /\ UNCHANGED <<session_vars, index_vars, file_vars, auth_vars, delta_vars>>
    \/ \E t \in DOMAIN tasks : TaskStart(t) /\ UNCHANGED <<session_vars, index_vars, file_vars, auth_vars, delta_vars>>
    \/ \E t \in DOMAIN tasks : TaskCancelled(t) /\ UNCHANGED <<session_vars, index_vars, file_vars, auth_vars, delta_vars>>
    \/ \E t \in DOMAIN tasks, ok \in BOOLEAN :
          CreateReturns(t, ok) /\ UNCHANGED <<session_vars, index_vars, file_vars, auth_vars, delta_vars>>
    \/ \E t \in DOMAIN tasks, kind \in ChunkKinds \ {"finish_tool_calls"} :
          Chunk(t, kind) /\ UNCHANGED <<session_vars, index_vars, file_vars, auth_vars, delta_vars>>

(***************************************************************************)
(*                        DocumentQueryService                             *)
(***************************************************************************)

Cooldown == 2       \* self.cooldown = 2.0
MaxNow   == 4       \* the index clock stops here
MaxScheduled == 1   \* delete coroutines waiting for the event loop at one time

\* The watched files: an absolute path is <<root, relative path>>.  Two
\* roots hold a file of the same relative path.
Roots == <<"project", "spec">>      \* self.root_dir, in its dict order
Files == {<<"project", "d/a.pdf">>, <<"spec", "d/a.pdf">>, <<"project", "d/b.pdf">>,
          <<"spec", "d/c.png">>, <<"spec", "d/e.exe">>, <<"spec", "d/G.JPG">>}
Contents == {1, 2}                  \* a file's bytes; Md5 tells them apart

Md5(content) == content             \* calculate_md5, collision-free here
\* Path.suffix of the paths above
RawSuffix(rel) ==
    CASE rel = "d/c.png" -> ".png"
      [] rel = "d/e.exe" -> ".exe"
      [] rel = "d/G.JPG" -> ".JPG"
      [] OTHER           -> ".pdf"

\* str.lower() on the suffixes above
Lower(sfx) == IF sfx = ".JPG" THEN ".jpg" ELSE sfx

\* Path.suffix.lower()
Suffix(rel) == Lower(RawSuffix(rel))

\* Path.suffix.lstrip('.').lower(): the ext column
Ext(rel) ==
    CASE Suffix(rel) = ".png" -> "png"
      [] Suffix(rel) = ".exe" -> "exe"
      [] Suffix(rel) = ".jpg" -> "jpg"
      [] OTHER                -> "pdf"

\* Path.name
FileName(rel) ==
    CASE rel = "d/a.pdf" -> "a.pdf"
      [] rel = "d/b.pdf" -> "b.pdf"
      [] rel = "d/c.png" -> "c.png"
      [] rel = "d/e.exe" -> "e.exe"
      [] OTHER           -> "G.JPG"

\* _queue_update line 363: temporary and hidden files
IsIgnored(rel) ==
    \/ FileName(rel) \in {".a.pdf", "~a.pdf"}    \* name.startswith(('.', '~'))
    \/ Suffix(rel) = ".tmp"                       \* path_str.endswith('.tmp')

\* _get_file_info line 255 (the last member is written without its dot)
spec_extensions == {".pdf", ".ofd", ".txt", ".ceb", ".md", ".docx", ".jpeg", ".jpg", "png"}

\* _get_file_info: None, or <<IndexedFile>> (the columns the queries of
\* this model read)
GetFileInfo(tree, root, rel) ==
    IF <<root, rel>> \notin DOMAIN tree THEN None
    ELSE IF root = "spec" /\ Suffix(rel) \notin spec_extensions THEN None
    ELSE <<[relative_path |-> rel, file_name |-> FileName(rel),
            document_type |-> root, md5_hash |-> Md5(tree[<<root, rel>>])]>>

\* INSERT OR REPLACE INTO indexed_files, whose PRIMARY KEY is relative_path
InsertOrReplace(rows, row) ==
    {r \in rows : r.relative_path # row.relative_path} \cup {row}

\* DELETE FROM indexed_files WHERE relative_path = ?
DeleteWhere(rows, rel) == {r \in rows : r.relative_path # rel}

\* the directory a relative path lies in ("" for a file of the root itself)
DirName(rel) == IF rel \in {f[2] : f \in Files} THEN "d" ELSE ""

\* relative_path LIKE 'dir/%'
InDir(rel, dir) == dir # "" /\ DirName(rel) = dir

\* DELETE FROM indexed_files WHERE relative_path = ? OR relative_path LIKE ?
DeleteLike(rows, dir) ==
    {r \in rows : r.relative_path # dir /\ ~InDir(r.relative_path, dir)}

Dirs == {"d"}

\* full_scan: every file of every root is upserted, root after root
RECURSIVE ScanFiles(_, _, _)
ScanFiles(rows, tree, todo) ==
    IF todo = {} THEN rows
    ELSE LET f    == CHOOSE x \in todo : TRUE
             info == GetFileInfo(tree, f[1], f[2])
         IN ScanFiles(IF info = None THEN rows ELSE InsertOrReplace(rows, info[1]),
                      tree, todo \ {f})

FullScan(tree) ==
    LET under(root) == {f \in DOMAIN tree : f[1] = root}
    IN ScanFiles(ScanFiles({}, tree, under(Roots[1])), tree, under(Roots[2]))

\* find_documents(relative_path=rel)
FindDocuments(rel) == {r \in table : r.relative_path = rel}

\* The trees the service may be started on.
InitialTrees ==
    { << >>, [f \in {<<"project", "d/a.pdf">>} |-> 1] }

\* _queue_update: the path is stamped unless it is ignored (none of the
\* paths is a directory)
QueueUpdate(pending, root, rel, t) ==
    IF IsIgnored(rel) THEN pending ELSE DictSet(pending, <<root, rel>>, t)

\* Bookkeeping: a later event on the source or the destination of the
\* move under way ends the observation of that move.
ForgetMove(m, root, rel) ==
    IF m # None /\ m[1].root = root /\ rel \in {m[1].src, m[1].dst} THEN None ELSE m

\* Both halves of move m are in the rows: no row of the source, and the
\* row of the destination holds the moved bytes.
SourceRowGone(rows, m) ==
    ~\E r \in rows : r.document_type = m.root /\ r.relative_path = m.src

DestinationRowThere(rows, m) ==
    \E r \in rows : /\ r.document_type = m.root /\ r.relative_path = m.dst
                     /\ r.md5_hash = Md5(m.content)

MoveApplied(rows, m) == SourceRowGone(rows, m) /\ DestinationRowThere(rows, m)

\* _start_watchdog .. shutdown: the observer is started by start() and
\* stopped by shutdown(); only in between are events delivered
Watching == loop_pc \notin {"init", "closed"}

\* Bookkeeping of bursts.  An event on a path that was not seen, or was
\* quiet for the cooldown, opens a burst; any other event adds to the
\* burst under way.  The counts stop at MaxCount.
MaxCount == 2

UpTo(n) == IF n < MaxCount THEN n + 1 ELSE MaxCount

BurstEvent(b, seen, k, t) ==
    IF k \notin DOMAIN seen \/ k \notin DOMAIN b \/ t - seen[k] >= Cooldown
    THEN DictSet(b, k, [events |-> 1, upserts |-> 0])
    ELSE DictSet(b, k, [b[k] EXCEPT !.events = UpTo(@)])

\* the loop chose the paths of taken, by their stamps, to upsert them
BurstTaken(b, taken) ==
    [k \in DOMAIN b |-> IF k \in taken THEN [b[k] EXCEPT !.upserts = UpTo(@)] ELSE b[k]]

\* the files whose _delete_document is scheduled and has not run
Scheduled(ds) == {<<ds[i][1], ds[i][2]>> : i \in DOMAIN ds}

\* A mutation of the debounce test: a path is taken as soon as it is seen.
SettledAtOnce(t_now, t) == t_now - t >= 0

\* _debounced_update_loop line 442: now - t >= self.cooldown
Settled(t_now, t) == t_now - t >= Cooldown

\* start(): full_scan of the trees as they are, then the watcher and the
\* debounce loop are started
StartService(tree) ==
    /\ loop_pc = "init"
    /\ fs' = tree
    /\ table' = FullScan(tree)
    /\ expected' = {<<r.document_type, r.relative_path>> : r \in FullScan(tree)}
    /\ loop_pc' = "sleep"
    /\ wake_at' = now + Cooldown
    /\ UNCHANGED <<now, pending_updates, batch, read_info, deletes, last_event, moved,
                   removed, burst>>

\* Time passes while the loop sleeps; the loop wakes on time and the work
\* on the event loop (upserts, deletes) takes no time.
IndexTick ==
    /\ now < MaxNow
    /\ loop_pc = "sleep" /\ now < wake_at
    /\ deletes = <<>>
    /\ now' = now + 1
    /\ UNCHANGED <<fs, table, pending_updates, loop_pc, wake_at, batch, read_info,
                   deletes, last_event, expected, moved, removed, burst>>

\* a file appears; on_created
CreateFile(root, rel, content) ==
    /\ Watching
    /\ <<root, rel>> \notin DOMAIN fs
    /\ fs' = DictSet(fs, <<root, rel>>, content)
    /\ pending_updates' = QueueUpdate(pending_updates, root, rel, now)
    /\ last_event' = DictSet(last_event, <<root, rel>>, now)
    /\ moved' = ForgetMove(moved, root, rel)
    /\ removed' = removed \ {<<root, DirName(rel)>>}
    /\ burst' = BurstEvent(burst, last_event, <<root, rel>>, now)
    /\ UNCHANGED <<now, table, loop_pc, wake_at, batch, read_info, deletes, expected>>

\* a file is rewritten; on_modified
ModifyFile(root, rel, content) ==
    /\ Watching
    /\ <<root, rel>> \in DOMAIN fs
    /\ fs[<<root, rel>>] # content
    /\ fs' = DictSet(fs, <<root, rel>>, content)
    /\ pending_updates' = QueueUpdate(pending_updates, root, rel, now)
    /\ last_event' = DictSet(last_event, <<root, rel>>, now)
    /\ moved' = ForgetMove(moved, root, rel)
    /\ burst' = BurstEvent(burst, last_event, <<root, rel>>, now)
    /\ UNCHANGED <<now, table, loop_pc, wake_at, batch, read_info, deletes, expected,
                   removed>>

\* a file is removed; on_deleted schedules _delete_document(rel) on the loop
DeleteFile(root, rel) ==
    /\ Watching
    /\ <<root, rel>> \in DOMAIN fs
    /\ Len(deletes) < MaxScheduled
    /\ fs' = DictPop(fs, <<root, rel>>)
    /\ deletes' = Append(deletes, <<root, rel, FALSE>>)
    /\ last_event' = DictPop(last_event, <<root, rel>>)
    /\ moved' = ForgetMove(moved, root, rel)
    /\ burst' = DictPop(burst, <<root, rel>>)
    /\ UNCHANGED <<now, table, pending_updates, loop_pc, wake_at, batch, read_info,
                   expected, removed>>

\* a directory is removed with all it holds; on_deleted (is_directory)
\* schedules _delete_directory_contents(rel) on the loop
DeleteDirectory(root, dir) ==
    /\ Watching
    /\ \E f \in DOMAIN fs : f[1] = root /\ InDir(f[2], dir)
    /\ Len(deletes) < MaxScheduled
    /\ LET gone == {f \in DOMAIN fs : f[1] = root /\ InDir(f[2], dir)}
       IN /\ fs' = [f \in (DOMAIN fs) \ gone |-> fs[f]]
          /\ last_event' = [f \in (DOMAIN last_event) \ gone |-> last_event[f]]
          /\ burst' = [f \in (DOMAIN burst) \ gone |-> burst[f]]
          /\ moved' = IF moved # None /\ moved[1].root = root
                         /\ (InDir(moved[1].src, dir) \/ InDir(moved[1].dst, dir))
                      THEN None ELSE moved
    /\ deletes' = Append(deletes, <<root, dir, TRUE>>)
    /\ removed' = removed \cup {<<root, dir>>}
    /\ UNCHANGED <<now, table, pending_updates, loop_pc, wake_at, batch, read_info,
                   expected>>

\* a file is renamed inside its root; on_moved schedules
\* _delete_document(src) and queues the destination
MoveFile(root, src, dst) ==
    /\ Watching
    /\ <<root, src>> \in DOMAIN fs
    /\ <<root, dst>> \in Files /\ src # dst
    /\ Len(deletes) < MaxScheduled
    /\ fs' = DictSet(DictPop(fs, <<root, src>>), <<root, dst>>, fs[<<root, src>>])
    /\ deletes' = Append(deletes, <<root, src, FALSE>>)
    /\ pending_updates' = QueueUpdate(pending_updates, root, dst, now)
    /\ last_event' = DictSet(DictPop(last_event, <<root, src>>), <<root, dst>>, now)
    /\ moved' = <<[root |-> root, src |-> src, dst |-> dst, content |-> fs[<<root, src>>],
                   indexed |-> \E r \in table : r.document_type = root
                                                 /\ r.relative_path = src]>>
    /\ removed' = removed \ {<<root, DirName(dst)>>}
    /\ burst' = BurstEvent(DictPop(burst, <<root, src>>), DictPop(last_event, <<root, src>>),
                           <<root, dst>>, now)
    /\ UNCHANGED <<now, table, loop_pc, wake_at, batch, read_info, expected>>

\* _delete_document or _delete_directory_contents runs: the row of that relative path is deleted
RunDelete ==
    /\ deletes # <<>>
    /\ table' = IF deletes[1][3] THEN DeleteLike(table, deletes[1][2])
                                  ELSE DeleteWhere(table, deletes[1][2])
    /\ deletes' = Tail(deletes)
    /\ expected' = IF deletes[1][3]
                   THEN {k \in expected : ~(k[1] = deletes[1][1] /\ InDir(k[2], deletes[1][2]))}
                   ELSE expected \ {<<deletes[1][1], deletes[1][2]>>}
    /\ UNCHANGED <<now, fs, pending_updates, loop_pc, wake_at, batch, read_info,
                   last_event, moved, removed, burst>>

\* _debounced_update_loop lines 437-447: the sleep is over; the settled
\* paths are taken out of pending_updates; with none the loop sleeps again
LoopWake ==
    /\ loop_pc = "sleep" /\ now >= wake_at
    /\ LET paths_to_process ==
              {p \in DOMAIN pending_updates : Settled(now, pending_updates[p])}
       IN /\ pending_updates' = [p \in (DOMAIN pending_updates) \ paths_to_process |->
                                    pending_updates[p]]
          /\ batch' = paths_to_process
          /\ IF paths_to_process = {}
             THEN wake_at' = now + Cooldown /\ UNCHANGED loop_pc
             ELSE loop_pc' = "upsert" /\ UNCHANGED wake_at
          /\ burst' = BurstTaken(burst, paths_to_process)
    /\ UNCHANGED <<now, fs, table, read_info, deletes, last_event, expected, moved,
                   removed>>

\* upsert_document line 291: _get_file_info in the executor; nothing to
\* write when it returns None
UpsertRead(p) ==
    /\ loop_pc = "upsert" /\ p \in batch /\ read_info = None
    /\ LET file == GetFileInfo(fs, p[1], p[2])
       IN IF file = None
          THEN /\ batch' = batch \ {p}
               /\ IF batch' = {}
                  THEN loop_pc' = "sleep" /\ wake_at' = now + Cooldown
                  ELSE UNCHANGED <<loop_pc, wake_at>>
               /\ UNCHANGED read_info
          ELSE /\ read_info' = file
               /\ batch' = batch \ {p}
               /\ UNCHANGED <<loop_pc, wake_at>>
    /\ UNCHANGED <<now, fs, table, pending_updates, deletes, last_event, expected,
                   moved, removed, burst>>

\* upsert_document lines 295-304: the row is written under the lock
UpsertWrite ==
    /\ loop_pc = "upsert" /\ read_info # None
    /\ table' = InsertOrReplace(table, read_info[1])
    /\ expected' = expected \cup {<<read_info[1].document_type,
                                     read_info[1].relative_path>>}
    /\ read_info' = None
    /\ IF batch = {}
       THEN loop_pc' = "sleep" /\ wake_at' = now + Cooldown
       ELSE UNCHANGED <<loop_pc, wake_at>>
    /\ moved' = IF moved # None /\ MoveApplied(table', moved[1]) THEN None ELSE moved
    /\ UNCHANGED <<now, fs, pending_updates, batch, deletes, last_event, removed, burst>>

\* The drain of _debounced_update_loop step by step, as the watcher thread
\* sees it: _queue_update runs in the observer's thread and takes no lock,
\* so its write can fall anywhere inside the critical section of the
\* loop.  (LoopWake is the same drain with no callback falling inside.)

\* self.lock is held by the debounce loop
LockHeld == loop_pc \in {"drain", "pop"}

\* lines 438-441: the sleep is over, now is read and the lock is taken
DrainEnter ==
    /\ loop_pc = "sleep" /\ now >= wake_at
    /\ loop_pc' = "drain"
    /\ UNCHANGED <<now, fs, table, pending_updates, wake_at, batch, read_info, deletes,
                   last_event, expected, moved, removed, burst>>

\* line 442: the comprehension over pending_updates.items() has run
DrainScan ==
    /\ loop_pc = "drain"
    /\ batch' = {p \in DOMAIN pending_updates : Settled(now, pending_updates[p])}
    /\ burst' = BurstTaken(burst, batch')
    /\ loop_pc' = "pop"
    /\ UNCHANGED <<now, fs, table, pending_updates, wake_at, read_info, deletes,
                   last_event, expected, moved, removed>>

\* lines 443-447: the paths taken are popped, the lock is released; with
\* none taken the loop sleeps again
DrainPop ==
    /\ loop_pc = "pop"
    /\ pending_updates' = [p \in (DOMAIN pending_updates) \ batch |-> pending_updates[p]]
    /\ IF batch = {}
       THEN loop_pc' = "sleep" /\ wake_at' = now + Cooldown
       ELSE loop_pc' = "upsert" /\ UNCHANGED wake_at
    /\ UNCHANGED <<now, fs, table, batch, read_info, deletes, last_event, expected,
                   moved, removed, burst>>

\* a file is written and _queue_update adds its path while the
\* comprehension of line 442 iterates over the dict: "dictionary changed
\* size during iteration" is raised in the loop, which nothing catches, and
\* the debounce task ends.  (The same callback falling before or after the
\* iteration is CreateFile or ModifyFile.)
QueueDuringScan(root, rel, content) ==
    /\ loop_pc = "drain"
    /\ <<root, rel>> \notin DOMAIN pending_updates /\ ~IsIgnored(rel)
    /\ <<root, rel>> \in DOMAIN fs => fs[<<root, rel>>] # content
    /\ fs' = DictSet(fs, <<root, rel>>, content)
    /\ pending_updates' = QueueUpdate(pending_updates, root, rel, now)
    /\ last_event' = DictSet(last_event, <<root, rel>>, now)
    /\ moved' = ForgetMove(moved, root, rel)
    /\ removed' = removed \ {<<root, DirName(rel)>>}
    /\ burst' = BurstEvent(burst, last_event, <<root, rel>>, now)
    /\ loop_pc' = "crashed"
    /\ UNCHANGED <<now, table, wake_at, batch, read_info, deletes, expected>>

\* shutdown(): the observer is stopped and joined, the debounce task is
\* cancelled at the await it is suspended in (its sleep, or the executor
\* read of an upsert), the connection is closed.  pending_updates is not
\* looked at.
Shutdown ==
    /\ Watching /\ ~LockHeld
    /\ loop_pc' = "closed"
    /\ batch' = {}
    /\ read_info' = None
    /\ UNCHANGED <<now, fs, table, pending_updates, wake_at, deletes, last_event,
                   expected, moved, removed, burst>>

\* The files of one relative path under both roots, and the files of one
\* root: the events of a run are drawn from one of the two.
SameName == {f \in Files : f[2] = "d/a.pdf"}
SameRoot == {f \in Files : f[1] = "project"}

\* files of the spec root with an image, a program and an upper-case suffix
OtherSuffix == {f \in Files : f[1] = "spec" /\ f[2] # "d/a.pdf"}

\* what the event loop does, whatever the watcher reports
IndexLoop ==
    \/ \E tree \in InitialTrees : StartService(tree) /\ UNCHANGED <<session_vars, chat_vars, file_vars, auth_vars, delta_vars>>
    \/ IndexTick /\ UNCHANGED <<session_vars, chat_vars, file_vars, auth_vars, delta_vars>>
    \/ RunDelete /\ UNCHANGED <<session_vars, chat_vars, file_vars, auth_vars, delta_vars>>
    \/ LoopWake /\ UNCHANGED <<session_vars, chat_vars, file_vars, auth_vars, delta_vars>>
    \/ \E p \in Files : UpsertRead(p) /\ UNCHANGED <<session_vars, chat_vars, file_vars, auth_vars, delta_vars>>
    \/ UpsertWrite /\ UNCHANGED <<session_vars, chat_vars, file_vars, auth_vars, delta_vars>>

NextIndex ==
    \/ IndexLoop
    \/ \E f \in SameName, c \in Contents :
          CreateFile(f[1], f[2], c) /\ UNCHANGED <<session_vars, chat_vars, file_vars, auth_vars, delta_vars>>
    \/ \E f \in SameName, c \in Contents :
          ModifyFile(f[1], f[2], c) /\ UNCHANGED <<session_vars, chat_vars, file_vars, auth_vars, delta_vars>>
    \/ \E f \in SameName : DeleteFile(f[1], f[2]) /\ UNCHANGED <<session_vars, chat_vars, file_vars, auth_vars, delta_vars>>

NextMove ==
    \/ IndexLoop
    \/ \E f \in SameRoot, c \in Contents :
          CreateFile(f[1], f[2], c) /\ UNCHANGED <<session_vars, chat_vars, file_vars, auth_vars, delta_vars>>
    \/ \E f \in SameRoot, c \in Contents :
          ModifyFile(f[1], f[2], c) /\ UNCHANGED <<session_vars, chat_vars, file_vars, auth_vars, delta_vars>>
    \/ \E f \in SameRoot : DeleteFile(f[1], f[2]) /\ UNCHANGED <<session_vars, chat_vars, file_vars, auth_vars, delta_vars>>
    \/ \E f \in SameRoot, g \in SameRoot :
          MoveFile(f[1], f[2], g[2]) /\ UNCHANGED <<session_vars, chat_vars, file_vars, auth_vars, delta_vars>>
    \/ \E dir \in Dirs :
          DeleteDirectory("project", dir) /\ UNCHANGED <<session_vars, chat_vars, file_vars, auth_vars, delta_vars>>

\* the service from start() to shutdown(), the drain taken step by step,
\* files written under one root
NextService ==
    \/ \E tree \in InitialTrees : StartService(tree) /\ UNCHANGED <<session_vars, chat_vars, file_vars, auth_vars, delta_vars>>
    \/ IndexTick /\ UNCHANGED <<session_vars, chat_vars, file_vars, auth_vars, delta_vars>>
    \/ DrainEnter /\ UNCHANGED <<session_vars, chat_vars, file_vars, auth_vars, delta_vars>>
    \/ DrainScan /\ UNCHANGED <<session_vars, chat_vars, file_vars, auth_vars, delta_vars>>
    \/ DrainPop /\ UNCHANGED <<session_vars, chat_vars, file_vars, auth_vars, delta_vars>>
    \/ \E p \in Files : UpsertRead(p) /\ UNCHANGED <<session_vars, chat_vars, file_vars, auth_vars, delta_vars>>
    \/ UpsertWrite /\ UNCHANGED <<session_vars, chat_vars, file_vars, auth_vars, delta_vars>>
    \/ \E f \in SameRoot, c \in Contents :
          CreateFile(f[1], f[2], c) /\ UNCHANGED <<session_vars, chat_vars, file_vars, auth_vars, delta_vars>>
    \/ \E f \in SameRoot, c \in Contents :
          ModifyFile(f[1], f[2], c) /\ UNCHANGED <<session_vars, chat_vars, file_vars, auth_vars, delta_vars>>
    \/ \E f \in SameRoot, c \in Contents :
          QueueDuringScan(f[1], f[2], c) /\ UNCHANGED <<session_vars, chat_vars, file_vars, auth_vars, delta_vars>>
    \/ Shutdown /\ UNCHANGED <<session_vars, chat_vars, file_vars, auth_vars, delta_vars>>

\* files of several types come and go under the spec root
NextFilter ==
    \/ IndexLoop
    \/ \E f \in OtherSuffix :
          CreateFile(f[1], f[2], 1) /\ UNCHANGED <<session_vars, chat_vars, file_vars, auth_vars, delta_vars>>
    \/ \E f \in OtherSuffix : DeleteFile(f[1], f[2]) /\ UNCHANGED <<session_vars, chat_vars, file_vars, auth_vars, delta_vars>>

(***************************************************************************)
(*                  FileService and the upload endpoints                   *)
(***************************************************************************)

\* Paths are sequences of segments.  self.root_dir and the places of the
\* file system the model looks at: a project directory, a directory in it,
\* a file in that, and a file outside the root.
RootDir    == <<"data">>
ProjectDir == <<"data", "2024", "X">>
SubDir     == <<"data", "2024", "X", "sub">>
TheFile    == <<"data", "2024", "X", "sub", "f">>
Outside    == <<"x">>
Places     == {ProjectDir, SubDir, TheFile, Outside}

\* data/ln is a symbolic link to the place outside the root
LinkPath   == <<"data", "ln">>

\* The relative_path arguments: inside the root (plain, and with a ".."
\* that stays inside), and leaving it by "..", as an absolute path ("/"
\* first) or through the link.
RelPathArgs ==
    { <<"2024", "X">>, <<"2024", "X", "sub">>, <<"2024", "X", "sub", "f">>,
      <<"2024", "X", "..", "X", "sub", "f">>,
      <<"..", "x">>, <<"2024", "..", "..", "x">>, <<"/", "x">>, <<"ln">> }

\* the filename argument of create_placeholder_file_async
FileNames == { <<"f">>, <<"..", "..", "..", "..", "x">> }

\* the bytes of an upload
Uploads == {"v1", "v2"}

IsFile(v) == v \in Uploads \cup {"part", "empty"}

IsPrefix(p, q) == Len(p) <= Len(q) /\ SubSeq(q, 1, Len(p)) = p

\* Path.is_absolute()
IsAbsolute(arg) == arg # <<>> /\ arg[1] = "/"

\* ".." segments are folded away, left to right
RECURSIVE Normalize(_, _)
Normalize(done, rest) ==
    IF rest = <<>> THEN done
    ELSE IF rest[1] = ".."
         THEN Normalize(IF done = <<>> THEN done ELSE SubSeq(done, 1, Len(done) - 1),
                        Tail(rest))
         ELSE Normalize(Append(done, rest[1]), Tail(rest))

\* Path.resolve(): ".." folded and the symbolic link followed
Resolve(path) ==
    LET n == Normalize(<<>>, path)
    IN IF IsPrefix(LinkPath, n)
       THEN Outside \o SubSeq(n, Len(LinkPath) + 1, Len(n))
       ELSE n

\* _get_safe_path: ok = FALSE stands for the ValueError
GetSafePath(arg) ==
    IF IsAbsolute(arg) THEN [ok |-> FALSE, path |-> <<>>]
    ELSE LET safe_path == Resolve(RootDir \o arg)
         IN IF ~(IsPrefix(RootDir, safe_path) /\ safe_path # RootDir)
               /\ safe_path # RootDir
            THEN [ok |-> FALSE, path |-> <<>>]
            ELSE [ok |-> TRUE, path |-> safe_path]

\* what is at a path (the root itself is a directory)
DiskAt(d, path) ==
    IF path \in Places THEN d[path]
    ELSE IF path = RootDir THEN "dir"
    ELSE IF IsPrefix(path, ProjectDir) /\ IsPrefix(RootDir, path) /\ d[ProjectDir] # "absent"
         THEN "dir" ELSE "absent"

Put(d, path, v) == IF path \in Places THEN [d EXCEPT ![path] = v] ELSE d

Parent(path) == SubSeq(path, 1, Len(path) - 1)

\* mkdir(parents=True, exist_ok=True) raises when a file is in the way
MkdirFails(d, path) == \E q \in Places : IsPrefix(q, path) /\ IsFile(d[q])

MkdirParents(d, path) ==
    [q \in Places |-> IF IsPrefix(q, path) /\ d[q] = "absent" THEN "dir" ELSE d[q]]

\* shutil.rmtree
RemoveTree(d, path) ==
    [q \in Places |-> IF IsPrefix(path, q) THEN "absent" ELSE d[q]]

\* The record of a call: its name and argument, what it returned or raised,
\* the places it read or wrote, the resolved path and what was there before.
\* For a save: the bytes handed in.  For an upload request: the overwrite
\* flag, whether the target directory was there, and the HTTP status of the
\* answer (0 for a plain call).
Call(name, arg, result, touched, final, before) ==
    [name |-> name, arg |-> arg, result |-> result, touched |-> touched,
     final |-> final, before |-> before,
     bytes |-> "none", overwrite |-> FALSE, existed |-> FALSE, status |-> 0]

NoCall == Call("none", <<>>, "none", {}, <<>>, "absent")

\* what every operation does first: _get_safe_path raising ValueError
Rejected(name, arg) == Call(name, arg, "ValueError", {}, <<>>, "absent")

\* FileService(root_dir): the temporary directory is beside the code, the
\* root is configured; they may or may not share a file system
MakeFileService(same) ==
    /\ temp_same_fs = "unset"
    /\ temp_same_fs' = IF same THEN "same" ELSE "other"
    /\ UNCHANGED <<disk, file_op>>

\* read_file_bytes_sync (get_file_response_async and read_file_stream_async
\* begin the same way)
ReadFileBytes(arg) ==
    /\ temp_same_fs # "unset"
    /\ LET sp == GetSafePath(arg)
       IN file_op' = IF ~sp.ok THEN Rejected("read_file_bytes_sync", arg)
                     ELSE Call("read_file_bytes_sync", arg,
                               IF IsFile(DiskAt(disk, sp.path)) THEN "ok"
                               ELSE "FileNotFoundError",
                               {sp.path}, sp.path, DiskAt(disk, sp.path))
    /\ UNCHANGED <<disk, temp_same_fs>>

\* file_exists_async and directory_exists_async: ValueError is turned into
\* False
Exists(arg, want_dir) ==
    LET sp == GetSafePath(arg)
    IN IF ~sp.ok THEN FALSE
       ELSE IF want_dir THEN DiskAt(disk, sp.path) = "dir"
            ELSE IsFile(DiskAt(disk, sp.path))

ExistsCall(arg, want_dir) ==
    /\ temp_same_fs # "unset"
    /\ LET sp   == GetSafePath(arg)
           name == IF want_dir THEN "directory_exists_async" ELSE "file_exists_async"
       IN file_op' = Call(name, arg, IF Exists(arg, want_dir) THEN "True" ELSE "False",
                          IF sp.ok THEN {sp.path} ELSE {}, sp.path,
                          IF sp.ok THEN DiskAt(disk, sp.path) ELSE "absent")
    /\ UNCHANGED <<disk, temp_same_fs>>

\* remove_directory_async
RemoveDirectory(arg) ==
    /\ temp_same_fs # "unset"
    /\ LET sp == GetSafePath(arg)
       IN IF ~sp.ok
          THEN file_op' = Rejected("remove_directory_async", arg) /\ UNCHANGED disk
          ELSE /\ file_op' = Call("remove_directory_async", arg, "ok", {sp.path},
                                  sp.path, DiskAt(disk, sp.path))
               /\ disk' = IF DiskAt(disk, sp.path) = "dir"
                          THEN RemoveTree(disk, sp.path) ELSE disk
    /\ UNCHANGED temp_same_fs

\* create_directory_async
CreateDirectory(arg) ==
    /\ temp_same_fs # "unset"
    /\ LET sp == GetSafePath(arg)
       IN IF ~sp.ok
          THEN file_op' = Rejected("create_directory_async", arg) /\ UNCHANGED disk
          ELSE IF DiskAt(disk, sp.path) # "absent"
          THEN /\ file_op' = Call("create_directory_async", arg, "ok", {sp.path},
                                  sp.path, DiskAt(disk, sp.path))
               /\ UNCHANGED disk
          ELSE IF MkdirFails(disk, sp.path)
          THEN /\ file_op' = Call("create_directory_async", arg, "OSError", {sp.path},
                                  sp.path, DiskAt(disk, sp.path))
               /\ UNCHANGED disk
          ELSE /\ file_op' = Call("create_directory_async", arg, "ok", {sp.path},
                                  sp.path, DiskAt(disk, sp.path))
               /\ disk' = MkdirParents(disk, sp.path)
    /\ UNCHANGED temp_same_fs

\* create_placeholder_file_async: the directory goes through
\* _get_safe_path, the filename is joined to it as it is
CreatePlaceholderFile(arg, filename) ==
    /\ temp_same_fs # "unset"
    /\ LET sp == GetSafePath(arg)
       IN IF ~sp.ok
          THEN file_op' = Rejected("create_placeholder_file_async", arg) /\ UNCHANGED disk
          ELSE LET placeholder_path == Normalize(<<>>, sp.path \o filename)
                   d1 == IF DiskAt(disk, sp.path) # "dir" /\ ~MkdirFails(disk, sp.path)
                         THEN MkdirParents(disk, sp.path) ELSE disk
               IN IF DiskAt(disk, sp.path) # "dir" /\ MkdirFails(disk, sp.path)
                  THEN /\ file_op' = Call("create_placeholder_file_async", arg, "OSError",
                                          {sp.path}, sp.path, DiskAt(disk, sp.path))
                       /\ UNCHANGED disk
                  ELSE /\ file_op' = Call("create_placeholder_file_async", arg, "ok",
                                          {sp.path, placeholder_path}, placeholder_path,
                                          DiskAt(disk, placeholder_path))
                       /\ disk' = IF DiskAt(d1, placeholder_path) = "absent"
                                  THEN Put(d1, placeholder_path, "empty") ELSE d1
    /\ UNCHANGED temp_same_fs

\* How a save can go: through, or failing at the mkdir of the parent, while
\* the temporary file is written, at the start of shutil.move, or in the
\* middle of the copy shutil.move makes when the temporary directory is on
\* another file system than the destination.
SaveOutcomes == {"ok", "mkdir_fails", "temp_write_fails", "move_fails", "copy_fails_midway"}

\* save_uploaded_file_async with _save_stream_to_temp_and_move: the result,
\* the disk afterwards, the places touched, the final path and what was
\* there before.  shutil.move renames on one file system and copies
\* otherwise; onto an existing directory it moves the file into it.
SaveFile(d, same_fs, arg, bytes, outcome) ==
    LET sp == GetSafePath(arg)
    IN IF ~sp.ok
       THEN [result |-> "ValueError", disk |-> d, touched |-> {}, final |-> <<>>,
             before |-> "absent"]
       ELSE LET final  == sp.path
                before == DiskAt(d, final)
                d1     == MkdirParents(d, Parent(final))
                out(r, dd) == [result |-> r, disk |-> dd, touched |-> {Parent(final), final},
                               final |-> final, before |-> before]
            IN IF MkdirFails(d, Parent(final)) THEN out("FileExistsError", d)
               ELSE IF outcome = "mkdir_fails" THEN out("OSError", d)
               ELSE IF outcome = "temp_write_fails" THEN out("OSError", d1)
               ELSE IF outcome = "move_fails" THEN out("OSError", d1)
               ELSE IF DiskAt(d1, final) = "dir" THEN out("ok", d1)
               ELSE IF outcome = "copy_fails_midway" /\ same_fs # "same"
                    THEN out("OSError", Put(d1, final, "part"))
               ELSE out("ok", Put(d1, final, bytes))

\* save_uploaded_file_async
SaveUploadedFile(arg, bytes, outcome) ==
    /\ temp_same_fs # "unset"
    /\ outcome = "copy_fails_midway" => temp_same_fs = "other"
    /\ LET s == SaveFile(disk, temp_same_fs, arg, bytes, outcome)
       IN /\ disk' = s.disk
          /\ file_op' = [Call("save_uploaded_file_async", arg, s.result, s.touched,
                              s.final, s.before) EXCEPT !.bytes = bytes]
    /\ UNCHANGED temp_same_fs

\* save_uploaded_directory_async with one file named f: the base directory
\* is made, the file is saved under it, and on an error the files saved so
\* far (none) are unlinked before it is raised again
SaveDirectory(d, same_fs, arg, bytes, outcome) ==
    LET sp == GetSafePath(arg)
    IN IF ~sp.ok
       THEN [result |-> "ValueError", disk |-> d, touched |-> {}, final |-> <<>>,
             before |-> "absent"]
       ELSE IF MkdirFails(d, sp.path)
       THEN [result |-> "FileExistsError", disk |-> d, touched |-> {sp.path},
             final |-> sp.path, before |-> DiskAt(d, sp.path)]
       ELSE LET s == SaveFile(MkdirParents(d, sp.path), same_fs, arg \o <<"f">>,
                              bytes, outcome)
            IN [s EXCEPT !.touched = s.touched \cup {sp.path}]

SaveUploadedDirectory(arg, bytes, outcome) ==
    /\ temp_same_fs # "unset"
    /\ outcome = "copy_fails_midway" => temp_same_fs = "other"
    /\ LET s == SaveDirectory(disk, temp_same_fs, arg, bytes, outcome)
       IN /\ disk' = s.disk
          /\ file_op' = Call("save_uploaded_directory_async", arg, s.result, s.touched,
                             s.final, s.before)
    /\ UNCHANGED temp_same_fs

\* The classes an exception is an instance of, for the except clauses
Bases(exc) ==
    CASE exc = "HTTPException409" -> {"HTTPException", "Exception"}
      [] exc = "FileExistsError"  -> {"FileExistsError", "OSError", "Exception"}
      [] exc = "ValueError"       -> {"ValueError", "Exception"}
      [] exc = "OSError"          -> {"OSError", "Exception"}
      [] OTHER                    -> {}

\* the except clauses of the three handlers, in their order
StatusOf(exc) ==
    IF exc = "ok" THEN 200
    ELSE IF "FileExistsError" \in Bases(exc) THEN 409
    ELSE IF "ValueError" \in Bases(exc) THEN 400
    ELSE IF "Exception" \in Bases(exc) THEN 500
    ELSE 0

Endpoints == {"/api/upload-project", "/api/upload-standards", "/api/upload-files"}

\* the directory the files go to: upload-project saves below the project
\* directory, the other two into the directory named
SaveDir(endpoint, arg) ==
    IF endpoint = "/api/upload-project" THEN arg \o <<"sub">> ELSE arg

\* upload-files rejects a path of fewer than three parts before anything
\* else; upload-project and upload-standards name a directory by two form
\* fields
ValidForm(endpoint, arg) ==
    IF endpoint = "/api/upload-files" THEN Len(arg) >= 3 ELSE Len(arg) = 2

\* the directories named in the upload forms
UploadArgs == { <<"2024", "X">>, <<"2024", "X", "sub">>, <<"..", "x">> }

\* POST to one of the three endpoints
UploadPost(endpoint, arg, overwrite, bytes, outcome) ==
    /\ temp_same_fs # "unset"
    /\ outcome = "copy_fails_midway" => temp_same_fs = "other"
    /\ LET existed == Exists(arg, TRUE)
           s       == SaveDirectory(disk, temp_same_fs, SaveDir(endpoint, arg), bytes, outcome)
           rec(result, st, touched) ==
               [Call(endpoint, arg, result, touched, s.final, s.before)
                   EXCEPT !.overwrite = overwrite, !.existed = existed, !.status = st]
       IN IF ~ValidForm(endpoint, arg)
          THEN file_op' = rec("HTTPException400", 400, {}) /\ UNCHANGED disk
          ELSE IF existed /\ ~overwrite
          THEN /\ file_op' = rec("HTTPException409", StatusOf("HTTPException409"), {})
               /\ UNCHANGED disk
          ELSE /\ file_op' = rec(s.result, StatusOf(s.result), s.touched)
               /\ disk' = s.disk
    /\ UNCHANGED temp_same_fs

NextFiles ==
    \/ /\ \/ \E same \in BOOLEAN : MakeFileService(same)
          \/ \E arg \in RelPathArgs : ReadFileBytes(arg)
          \/ \E arg \in RelPathArgs, want_dir \in BOOLEAN : ExistsCall(arg, want_dir)
          \/ \E arg \in RelPathArgs : RemoveDirectory(arg)
          \/ \E arg \in RelPathArgs : CreateDirectory(arg)
          \/ \E arg \in RelPathArgs, filename \in FileNames : CreatePlaceholderFile(arg, filename)
          \/ \E arg \in RelPathArgs, bytes \in Uploads, outcome \in SaveOutcomes :
                SaveUploadedFile(arg, bytes, outcome)
          \/ \E arg \in RelPathArgs, bytes \in Uploads, outcome \in SaveOutcomes :
                SaveUploadedDirectory(arg, bytes, outcome)
          \/ \E endpoint \in Endpoints, arg \in UploadArgs, overwrite \in BOOLEAN,
                bytes \in Uploads, outcome \in SaveOutcomes :
                UploadPost(endpoint, arg, overwrite, bytes, outcome)
       /\ UNCHANGED <<session_vars, chat_vars, index_vars, auth_vars, delta_vars>>

InitFiles ==
    /\ disk = [p \in Places |-> IF p = Outside THEN "v1" ELSE "absent"]
    /\ temp_same_fs = "unset"
    /\ file_op = NoCall

InitSession ==
    /\ clock = 0
    /\ user_sessions = << >>
    /\ next_token = 0
    /\ logins = [c \in Calls |-> IdleLogin]
    /\ discarded = {}
    /\ conns = [c \in ConnIds |-> IdleConn]

InitChat ==
    /\ run_state = "loop"
    /\ stop_event = FALSE
    /\ chat_task = 0
    /\ conversation_id = "none"
    /\ ws_open = TRUE
    /\ tasks = << >>
    /\ agent_messages = 0
    /\ last_reply = "none"
    /\ history = <<SystemMessage>>

InitIndex ==
    /\ now = 0
    /\ fs = << >>
    /\ table = {}
    /\ pending_updates = << >>
    /\ loop_pc = "init"
    /\ wake_at = 0
    /\ batch = {}
    /\ read_info = None
    /\ deletes = <<>>
    /\ last_event = << >>
    /\ expected = {}
    /\ moved = None
    /\ removed = {}
    /\ burst = << >>

\* No request is in verify_active_session and no sweep has run.  branch is
\* bookkeeping: the branch the tests of the request took.
IdleVerify == [st |-> "idle", user |-> "alice", sid |-> "S1", res |-> "none",
               cleared |-> FALSE, branch |-> "none"]

InitAuth ==
    /\ verify = IdleVerify
    /\ swept = None

\* _handle_stream starts with tool_call_chunks = {}; __init__ sets
\* self.tool_call_id = 0
InitDelta ==
    /\ tool_call_chunks = << >>
    /\ tool_call_id = 0
    /\ supplied = << >>
    /\ synthesized = << >>

Init == InitSession /\ InitChat /\ InitIndex /\ InitFiles /\ InitAuth /\ InitDelta

SpecLogin == Init /\ [][NextLogin]_vars

SpecToken == Init /\ [][NextToken]_vars

SpecWorkingSet == Init /\ [][NextWorkingSet]_vars

SpecWebsocket == Init /\ [][NextWebsocket]_vars

SpecChat == Init /\ [][NextChat]_vars

SpecDepth == Init /\ [][NextDepth]_vars

SpecTools == Init /\ [][NextTools]_vars

SpecStop == Init /\ [][NextStop]_vars

SpecIndex == Init /\ [][NextIndex]_vars

SpecMove == Init /\ [][NextMove]_vars

SpecFilter == Init /\ [][NextFilter]_vars

SpecService == Init /\ [][NextService]_vars

SpecFiles == Init /\ [][NextFiles]_vars

(***************************************************************************)
(*                        verify_active_session                            *)
(***************************************************************************)

\* A mutation of the tests of verify_active_session: a session idle for
\* exactly the timeout is still admitted.
VerifyDecisionLate(sessions, u, sid, t) ==
    IF u \notin DOMAIN sessions THEN "not_found"
    ELSE IF sessions[u].session_id # sid THEN "mismatch"
    ELSE IF (t - sessions[u].last_activity_time) > InactivityTimeout THEN "idle"
    ELSE "active"

\* The tests of verify_active_session on what get_user_data returned, at
\* time t: which of its four branches the request takes.
VerifyDecision(sessions, u, sid, t) ==
    IF u \notin DOMAIN sessions THEN "not_found"
    ELSE IF sessions[u].session_id # sid THEN "mismatch"
    ELSE IF (t - sessions[u].last_activity_time) >= InactivityTimeout THEN "idle"
    ELSE "active"

\* the answers of the dependency: HTTPException(401), with or without
\* request.session.clear() before it, and the username returned
Answer401(v, clear) == [v EXCEPT !.st = "done", !.res = "401", !.cleared = clear]
Admitted(v)         == [v EXCEPT !.st = "done", !.res = "admitted"]

\* A request without user or session_id in its cookie session: 401, the
\* cookie session is not cleared and the manager is not asked.
VerifyNoCookie ==
    /\ verify.st \in {"idle", "done"}
    /\ verify' = Answer401(IdleVerify, FALSE)
    /\ UNCHANGED <<session_vars, swept>>

\* A request with cookie session (u, sid) while self._lock is free and
\* nobody waits for it: get_user_data and logout_user / set_http_activity
\* take the lock one after the other without the coroutine ever being
\* suspended, so the whole dependency is one step.
VerifyAtOnce(u, sid) ==
    /\ verify.st \in {"idle", "done"}
    /\ LockFree
    /\ LET d == VerifyDecision(user_sessions, u, sid, clock)
           v == [IdleVerify EXCEPT !.user = u, !.sid = sid, !.branch = d]
       IN CASE d \in {"not_found", "mismatch"} ->
                 verify' = Answer401(v, TRUE) /\ UNCHANGED session_vars
            [] d = "idle" ->
                 verify' = Answer401(v, TRUE) /\ LogoutUser(u)
            [] OTHER ->
                 verify' = Admitted(v) /\ SetHttpActivity(u)
    /\ UNCHANGED swept

\* A request with cookie session (u, sid) while self._lock is held (by
\* connect_websocket, across its await): get_user_data joins the waiters of
\* the lock.
VerifyCall(u, sid) ==
    /\ verify.st \in {"idle", "done"}
    /\ ~LockFree
    /\ verify' = [IdleVerify EXCEPT !.st = "called", !.user = u, !.sid = sid]
    /\ UNCHANGED <<session_vars, swept>>

\* get_user_data gets the lock and returns; the tests follow at once.  The
\* calls that queued behind get_user_data run before the second call of the
\* dependency gets the lock (asyncio.Lock serves its waiters in order).
VerifyRead ==
    /\ verify.st = "called"
    /\ LockFree
    /\ LET d == VerifyDecision(user_sessions, verify.user, verify.sid, clock)
           v == [verify EXCEPT !.branch = d]
       IN verify' = CASE d \in {"not_found", "mismatch"} -> Answer401(v, TRUE)
                      [] d = "idle" -> [v EXCEPT !.st = "logout"]
                      [] OTHER      -> [v EXCEPT !.st = "stamp"]
    /\ UNCHANGED <<session_vars, swept>>

\* the idle branch goes on: logout_user(username), session.clear(), 401
VerifyLogout ==
    /\ verify.st = "logout"
    /\ LogoutUser(verify.user)
    /\ verify' = Answer401(verify, TRUE)
    /\ UNCHANGED swept

\* the last branch goes on: set_http_activity(username), which does nothing
\* when the user has no session any more, and the username is returned
VerifyStamp ==
    /\ verify.st = "stamp"
    /\ LockFree
    /\ IF verify.user \in DOMAIN user_sessions
       THEN SetHttpActivity(verify.user)
       ELSE UNCHANGED session_vars
    /\ verify' = Admitted(verify)
    /\ UNCHANGED swept

\* process_inactive_sessions as the scheduler runs it, with the time of the
\* run noted
Sweep ==
    /\ ProcessInactiveSessions
    /\ swept' = <<"sessions", clock>>
    /\ UNCHANGED verify

\* cleanup_expired_opened_files as the scheduler runs it, with the time of
\* the run noted
SweepFiles ==
    /\ CleanupExpiredOpenedFiles
    /\ swept' = <<"files", clock>>
    /\ UNCHANGED verify

\* One browser's requests through verify_active_session against logins
\* of the same user from two browsers and a WebSocket being connected.
NextVerify ==
    \/ Tick /\ UNCHANGED <<chat_vars, index_vars, file_vars, auth_vars, delta_vars>>
    \/ \E sid \in SessionIds :
          Login("alice", sid) /\ UNCHANGED <<chat_vars, index_vars, file_vars, auth_vars, delta_vars>>
    \/ \E c \in ConnIds, sid \in SessionIds :
          WsRequest(c, sid) /\ UNCHANGED <<chat_vars, index_vars, file_vars, auth_vars, delta_vars>>
    \/ \E c \in ConnIds : WsConnect(c) /\ UNCHANGED <<chat_vars, index_vars, file_vars, auth_vars, delta_vars>>
    \/ \E c \in ConnIds : WsAccepted(c) /\ UNCHANGED <<chat_vars, index_vars, file_vars, auth_vars, delta_vars>>
    \/ VerifyNoCookie /\ UNCHANGED <<chat_vars, index_vars, file_vars, delta_vars>>
    \/ \E sid \in SessionIds :
          VerifyAtOnce("alice", sid) /\ UNCHANGED <<chat_vars, index_vars, file_vars, delta_vars>>
    \/ \E sid \in SessionIds :
          VerifyCall("alice", sid) /\ UNCHANGED <<chat_vars, index_vars, file_vars, delta_vars>>
    \/ VerifyRead /\ UNCHANGED <<chat_vars, index_vars, file_vars, delta_vars>>
    \/ VerifyLogout /\ UNCHANGED <<chat_vars, index_vars, file_vars, delta_vars>>
    \/ VerifyStamp /\ UNCHANGED <<chat_vars, index_vars, file_vars, delta_vars>>

SpecVerify == Init /\ [][NextVerify]_vars

\* The idle sweep over the sessions of two users, one of them with a
\* WebSocket, against logins and activity stamps.
NextSweep ==
    \/ Tick /\ UNCHANGED <<chat_vars, index_vars, file_vars, auth_vars, delta_vars>>
    \/ Login("alice", "S1") /\ UNCHANGED <<chat_vars, index_vars, file_vars, auth_vars, delta_vars>>
    \/ Login("bob", "S2") /\ UNCHANGED <<chat_vars, index_vars, file_vars, auth_vars, delta_vars>>
    \/ \E u \in Users :
          SetHttpActivity(u) /\ UNCHANGED <<chat_vars, index_vars, file_vars, auth_vars, delta_vars>>
    \/ WsRequest(1, "S1") /\ UNCHANGED <<chat_vars, index_vars, file_vars, auth_vars, delta_vars>>
    \/ WsConnect(1) /\ UNCHANGED <<chat_vars, index_vars, file_vars, auth_vars, delta_vars>>
    \/ WsAccepted(1) /\ UNCHANGED <<chat_vars, index_vars, file_vars, auth_vars, delta_vars>>
    \/ WsDetach(1) /\ UNCHANGED <<chat_vars, index_vars, file_vars, auth_vars, delta_vars>>
    \/ Sweep /\ UNCHANGED <<chat_vars, index_vars, file_vars, delta_vars>>

SpecSweep == Init /\ [][NextSweep]_vars

\* A mutation of register_editing_file: a new file_key is made for every
\* registration.
RegisterEditingFileFresh(user, file_path) ==
    /\ LockFree
    /\ user \in DOMAIN user_sessions
    /\ next_token < MaxTokens
    /\ next_token' = next_token + 1
    /\ user_sessions' = [user_sessions EXCEPT ![user].editing_file =
                            [file_key |-> next_token + 1, file_path |-> file_path]]
    /\ UNCHANGED <<clock, logins, discarded, conns>>

\* register_editing_file: the key of a session that has the path and a
\* non-empty key is taken (the first one in dict order, here any one);
\* without one a new key is cut from a uuid4.  An unknown user gets
\* (None, None) and nothing changes.
RegisterEditingFile(user, file_path) ==
    /\ LockFree
    /\ LET found == {user_sessions[u].editing_file.file_key :
                       u \in {w \in DOMAIN user_sessions :
                                /\ user_sessions[w].editing_file.file_path = file_path
                                /\ user_sessions[w].editing_file.file_key # 0}}
       IN IF user \notin DOMAIN user_sessions
          THEN UNCHANGED <<user_sessions, next_token>>
          ELSE IF found # {}
          THEN /\ \E file_key \in found :
                     user_sessions' = [user_sessions EXCEPT ![user].editing_file =
                        [file_key |-> file_key, file_path |-> file_path]]
               /\ UNCHANGED next_token
          ELSE /\ next_token < MaxTokens
               /\ next_token' = next_token + 1
               /\ user_sessions' = [user_sessions EXCEPT ![user].editing_file =
                     [file_key |-> next_token + 1, file_path |-> file_path]]
    /\ UNCHANGED <<clock, logins, discarded, conns>>

\* remove_edited_file: every session that holds the key has its editing
\* state cleared
RemoveEditedFile(file_key) ==
    /\ LockFree
    /\ user_sessions' = [u \in DOMAIN user_sessions |->
          IF user_sessions[u].editing_file.file_key = file_key
          THEN [user_sessions[u] EXCEPT
                  !.editing_file = [file_key |-> 0, file_path |-> ""]]
          ELSE user_sessions[u]]
    /\ UNCHANGED <<clock, next_token, logins, discarded, conns>>

\* get_editing_file: the path of the first session that holds the key (any
\* one of them here), "" when no session holds it
GetEditingFile(file_key) ==
    LET hits == {u \in DOMAIN user_sessions :
                    user_sessions[u].editing_file.file_key = file_key}
    IN IF hits = {} THEN {""}
       ELSE {user_sessions[u].editing_file.file_path : u \in hits}

\* Two users registering and closing documents for co-editing, with logins
\* and logouts in between.
NextEditing ==
    \/ Tick /\ UNCHANGED <<chat_vars, index_vars, file_vars, auth_vars, delta_vars>>
    \/ Login("alice", "S1") /\ UNCHANGED <<chat_vars, index_vars, file_vars, auth_vars, delta_vars>>
    \/ Login("bob", "S2") /\ UNCHANGED <<chat_vars, index_vars, file_vars, auth_vars, delta_vars>>
    \/ \E u \in Users : LogoutUser(u) /\ UNCHANGED <<chat_vars, index_vars, file_vars, auth_vars, delta_vars>>
    \/ \E u \in Users, p \in FilePaths :
          RegisterEditingFile(u, p) /\ UNCHANGED <<chat_vars, index_vars, file_vars, auth_vars, delta_vars>>
    \/ \E k \in 0..MaxTokens :
          RemoveEditedFile(k) /\ UNCHANGED <<chat_vars, index_vars, file_vars, auth_vars, delta_vars>>

SpecEditing == Init /\ [][NextEditing]_vars

\* The sweep of the working sets of two users: files and directories are
\* opened at different times and the clean-up job runs in between.
NextCleanup ==
    \/ Tick /\ UNCHANGED <<chat_vars, index_vars, file_vars, auth_vars, delta_vars>>
    \/ Login("alice", "S1") /\ UNCHANGED <<chat_vars, index_vars, file_vars, auth_vars, delta_vars>>
    \/ Login("bob", "S2") /\ UNCHANGED <<chat_vars, index_vars, file_vars, auth_vars, delta_vars>>
    \/ \E u \in Users :
          UpdateOpenedFile(u, "2024/X/R.pdf", TRUE, "PROJECT")
             /\ UNCHANGED <<chat_vars, index_vars, file_vars, auth_vars, delta_vars>>
    \/ \E u \in Users :
          UpdateOpenedDir(u, "2024/X", <<"2024/X/S.pdf">>)
             /\ UNCHANGED <<chat_vars, index_vars, file_vars, auth_vars, delta_vars>>
    \/ SweepFiles /\ UNCHANGED <<chat_vars, index_vars, file_vars, delta_vars>>

SpecCleanup == Init /\ [][NextCleanup]_vars

(***************************************************************************)
(*            save_uploaded_directory_async with several files             *)
(***************************************************************************)

\* The files of one upload: UploadFile.filename (a relative path, <<>> for
\* an empty name), the bytes, and how the save of that file goes.
UploadNames == { <<"sub">>, <<"sub", "f">> }
UploadFiles == [filename : UploadNames, bytes : Uploads, outcome : {"ok", "move_fails"}]
MaxFiles    == 3
UploadLists ==
    UNION {[1..n -> UploadFiles] : n \in 1..MaxFiles}

\* the for loop of save_uploaded_directory_async: every file with a name
\* is saved by save_uploaded_file_async under relative_dir and its path
\* appended to saved_files, until one save raises
RECURSIVE SaveEach(_, _, _, _, _)
SaveEach(d, same_fs, relative_dir, files, saved_files) ==
    IF files = <<>> THEN [result |-> "ok", disk |-> d, saved_files |-> saved_files]
    ELSE IF Head(files).filename = <<>>
    THEN SaveEach(d, same_fs, relative_dir, Tail(files), saved_files)
    ELSE LET file == Head(files)
             s == SaveFile(d, same_fs, relative_dir \o file.filename, file.bytes,
                           file.outcome)
         IN IF s.result = "ok"
            THEN SaveEach(s.disk, same_fs, relative_dir, Tail(files),
                          Append(saved_files, s.final))
            ELSE [result |-> s.result, disk |-> s.disk, saved_files |-> saved_files]

\* the except clause: path.unlink(missing_ok=True) for each saved path in
\* turn, with nothing around it that would catch an error: unlink of a
\* directory raises (IsADirectoryError, PermissionError on Windows) and
\* the loop ends there
RECURSIVE UnlinkSaved(_, _)
UnlinkSaved(d, saved_files) ==
    IF saved_files = <<>> THEN [disk |-> d, raised |-> FALSE]
    ELSE IF DiskAt(d, Head(saved_files)) = "dir" THEN [disk |-> d, raised |-> TRUE]
    ELSE UnlinkSaved(Put(d, Head(saved_files), "absent"), Tail(saved_files))

\* save_uploaded_directory_async(files, relative_dir).  cause is what the
\* failing save raised ("ok" when none failed), result what the caller
\* gets, saved_files the list at the end of the loop.
SaveUploadedFiles(arg, files) ==
    /\ temp_same_fs # "unset"
    /\ LET sp == GetSafePath(arg)
           op(result, cause, saved_files) ==
               [Call("save_uploaded_directory_async", arg, result, {}, <<>>, "absent")
                   @@ [cause |-> cause, saved_files |-> saved_files]
                EXCEPT !.final = sp.path]
       IN IF ~sp.ok
          THEN file_op' = op("ValueError", "none", <<>>) /\ UNCHANGED disk
          ELSE IF MkdirFails(disk, sp.path)
          THEN file_op' = op("FileExistsError", "none", <<>>) /\ UNCHANGED disk
          ELSE LET r == SaveEach(MkdirParents(disk, sp.path), temp_same_fs, arg,
                                 files, <<>>)
                   u == UnlinkSaved(r.disk, r.saved_files)
               IN IF r.result = "ok"
                  THEN /\ disk' = r.disk
                       /\ file_op' = op("ok", "ok", r.saved_files)
                  ELSE /\ disk' = u.disk
                       /\ file_op' = op(IF u.raised THEN "IsADirectoryError"
                                        ELSE r.result, r.result, r.saved_files)
    /\ UNCHANGED temp_same_fs

\* Uploads of a directory with up to MaxFiles files into the project
\* directory, whose sub directory comes and goes.
NextUpload ==
    \/ /\ \/ \E same \in BOOLEAN : MakeFileService(same)
          \/ \E arg \in {<<"2024", "X", "sub">>} : CreateDirectory(arg)
          \/ \E arg \in {<<"2024", "X", "sub">>, <<"2024", "X">>} : RemoveDirectory(arg)
          \/ \E files \in UploadLists : SaveUploadedFiles(<<"2024", "X">>, files)
       /\ UNCHANGED <<session_vars, chat_vars, index_vars, auth_vars, delta_vars>>

SpecUpload == Init /\ [][NextUpload]_vars

(***************************************************************************)
(*              _handle_stream_chunk: tool calls put together              *)
(***************************************************************************)

\* The tool_calls deltas of a stream: the index of the call and the id the
\* delta carries, None for a delta without one.
MaxSynth    == 3     \* self.tool_call_id stops here
MaxParts    == 2     \* argument fragments counted per call
Indexes     == {0, 1}
UpstreamIds == {"call_a", "call_b"}
DeltaIds    == {None} \cup {<<id>> : id \in UpstreamIds}

\* _handle_stream begins: tool_call_chunks = {}.  self.tool_call_id is an
\* attribute of the proxy and goes on counting.
StreamStart ==
    /\ tool_call_chunks' = << >>
    /\ supplied' = << >>
    /\ synthesized' = << >>
    /\ UNCHANGED tool_call_id

\* _handle_stream_chunk for one entry of delta.tool_calls: setdefault of
\* the index, then the id of the delta is stored if it has one and
\* otherwise self.tool_call_id is counted up and its str() stored.  name is
\* whether a function name has arrived, parts the number of argument
\* fragments appended.
HandleStreamChunk(index, id, has_name, has_arguments) ==
    /\ id = None => tool_call_id < MaxSynth
    /\ LET chunk == IF index \in DOMAIN tool_call_chunks
                    THEN tool_call_chunks[index]
                    ELSE [id |-> "", name |-> FALSE, parts |-> 0]
           new_id == IF id # None THEN id[1] ELSE ToString(tool_call_id + 1)
       IN tool_call_chunks' = DictSet(tool_call_chunks, index,
             [id    |-> new_id,
              name  |-> chunk.name \/ has_name,
              parts |-> IF has_arguments /\ chunk.parts < MaxParts
                        THEN chunk.parts + 1 ELSE chunk.parts])
    /\ tool_call_id' = IF id # None THEN tool_call_id ELSE tool_call_id + 1
    /\ supplied' = IF id # None
                   THEN DictSet(supplied, index, id[1])
                   ELSE supplied
    /\ synthesized' = IF id # None THEN synthesized
                      ELSE DictSet(synthesized, index,
                                   IF index \in DOMAIN synthesized
                                   THEN synthesized[index] + 1 ELSE 1)

\* The tool-call deltas of the streams of one proxy.
NextDelta ==
    \/ StreamStart /\ UNCHANGED <<session_vars, chat_vars, index_vars, file_vars, auth_vars>>
    \/ \E index \in Indexes, id \in DeltaIds, has_name \in BOOLEAN, has_arguments \in BOOLEAN :
          HandleStreamChunk(index, id, has_name, has_arguments)
             /\ UNCHANGED <<session_vars, chat_vars, index_vars, file_vars, auth_vars>>

SpecDelta == Init /\ [][NextDelta]_vars

(***************************************************************************)
(*                  Properties of the SessionStateManager                  *)
(***************************************************************************)

\* Every FileEntry a session holds, in working_files or in its directory.
EntriesOf(data) ==
    {data.working_files[i] : i \in 1..Len(data.working_files)} \cup
    (IF data.working_directory = <<>> THEN {}
     ELSE {data.working_directory[1].files[i] :
              i \in 1..Len(data.working_directory[1].files)})

AllEntries == UNION {EntriesOf(user_sessions[u]) : u \in DOMAIN user_sessions}

\* C1: a token whose expire_at has passed is never resolved: at every time
\* at or after expire_at, get_downloadable_file_info(token) returns None and
\* the download endpoint answers 404, for entries of working_files and of
\* working_directory.files alike, whether or not the sweeper has run.
C1_ExpiredTokenNotResolved ==
    \A e \in AllEntries :
        e.expire_at <= clock =>
            /\ GetDownloadableFileInfo(e.token) = None
            /\ DownloadStatus(e.token) = 404

\* C2 as stated: of two attempt_login calls for one user that overlap while
\* the user's last_activity_time is within the idle window, exactly one
\* returns true.
C2_ExactlyOneSucceeds ==
    \A c \in Calls :
        (logins[c].st = "done" /\ logins[c].peer # "none") =>
            ((logins[c].peer = "won") # logins[c].res)

\* C2 amended: of two attempt_login calls for one user that overlap while
\* the user's session stays in place within the idle window, the one that
\* runs second returns false, so at most one returns true (and exactly one
\* only when the first found no session within the idle window).
C2_AtMostOneSucceeds ==
    \A c \in Calls :
        (logins[c].st = "done" /\ logins[c].peer # "none") => ~logins[c].res

C2_Witness ==
    \E c \in Calls :
        logins[c].st = "done" /\ logins[c].peer = "won" /\ ~logins[c].res

\* C3: attempt_login returns false whenever a session of that user exists
\* with now - last_activity_time < the inactivity timeout, and then leaves
\* the existing session (id, timestamp, WebSocket, working set) unchanged.
C3_ActiveSessionRejectsLogin ==
    [][\A c \in Calls :
          ( /\ logins[c].st = "waiting"
            /\ logins'[c].st = "done"
            /\ logins[c].user \in DOMAIN user_sessions
            /\ clock - user_sessions[logins[c].user].last_activity_time
                  < InactivityTimeout )
          => ( /\ logins'[c].res = FALSE
               /\ user_sessions' = user_sessions )]_vars

C3_Witness ==
    \E c \in Calls :
        /\ logins[c].st = "done"
        /\ ~logins[c].res
        /\ logins[c].user \in DOMAIN user_sessions
        /\ user_sessions[logins[c].user].session_id # logins[c].sid
        /\ user_sessions[logins[c].user].is_websocket_connected
        /\ clock - user_sessions[logins[c].user].last_activity_time
              = InactivityTimeout - 1

(***************************************************************************)
(*                 Properties of the OpenAIWebSocketProxy                  *)
(***************************************************************************)

\* C4: per connection at most one completion task is in flight: a new query
\* cancels the previous completion task before the new one is launched, so
\* once a later task exists every earlier task is finished or cancelled.
C4_OneTaskInFlight ==
    \A t1 \in DOMAIN tasks, t2 \in DOMAIN tasks :
        t1 < t2 => (tasks[t1].pc = "done" \/ tasks[t1].cancel)

\* C5: within one turn no _handle_stream frame deeper than max_depth gets
\* past the guard: every upstream call, every stream read and every tool
\* round of a task happens at a depth of at most max_depth, however many
\* tool_calls answers the upstream gives in a row.
C5_DepthBounded ==
    \A t \in DOMAIN tasks :
        tasks[t].pc \in {"create", "stream", "tools"} => tasks[t].depth <= MaxDepth

C5_Witness ==
    \E t \in DOMAIN tasks :
        tasks[t].how = "too_deep" /\ tasks[t].ends = 1 /\ agent_messages > 0

\* C6: when a chain of tool calls would take _handle_stream beyond
\* max_depth, exactly one error message is sent to the client in that turn.
C6_OneErrorWhenTooDeep ==
    \A t \in DOMAIN tasks :
        (tasks[t].how = "too_deep" /\ ws_open) => tasks[t].errs = 1

\* C7: once a stop_chat_stream message has been handled (the stop flag is
\* set), no agent_message is sent on the connection until a new query is
\* received (which clears the flag).
C7_NoMessageAfterStop ==
    [][stop_event => agent_messages' = agent_messages]_vars

C7_Witness ==
    /\ last_reply = "stop_request_processed"
    /\ stop_event
    /\ agent_messages > 0
    /\ \E t \in DOMAIN tasks : tasks[t].how = "cancelled" /\ tasks[t].ends = 1
    /\ \E t \in DOMAIN tasks : tasks[t].how = "stopped"

\* C8: every completion task sends message_end exactly once, as its last
\* event, whether it ends normally, on an upstream failure, on the stop
\* flag or by cancellation (the socket being up).
C8_MessageEndOnce ==
    \A t \in DOMAIN tasks :
        ws_open => ( /\ tasks[t].pc = "done" => tasks[t].ends = 1
                     /\ tasks[t].pc # "done" => tasks[t].ends = 0 )

(***************************************************************************)
(*                 Properties of the DocumentQueryService                  *)
(***************************************************************************)

\* C9: after any sequence of scans, upserts, deletes and moves the index
\* holds exactly one row per (document type, relative path) for each
\* indexed file: files of the same relative path under different roots
\* each keep their own row.
C9_OneRowPerTypeAndPath ==
    \A k \in expected :
        Cardinality({r \in table : r.document_type = k[1] /\ r.relative_path = k[2]}) = 1

\* C10: for any file f under a watched root, later than cooldown + epsilon
\* after its last create or modify event (epsilon below one second),
\* find_documents by relative path returns exactly one row, and its
\* md5_hash is the MD5 of f.
C10_IndexedWithinCooldown ==
    \A f \in DOMAIN last_event :
        (f \in DOMAIN fs /\ now - last_event[f] > Cooldown) =>
            /\ Cardinality(FindDocuments(f[2])) = 1
            /\ \A r \in FindDocuments(f[2]) : r.md5_hash = Md5(fs[f])

C12_DirectoryRowsGone ==
    \A k \in removed :
        k \notin Scheduled(deletes) =>
            ~\E r \in table : r.document_type = k[1] /\ InDir(r.relative_path, k[2])

\* C13: save_uploaded_file_async is atomic at the final path: when it
\* returns, the final path holds exactly the uploaded bytes; when it raises,
\* the final path is absent or holds what it held before the call, never a
\* part of the upload.
C13_SaveAtomic ==
    (file_op.name = "save_uploaded_file_async" /\ file_op.result # "ValueError")
        => IF file_op.result = "ok"
           THEN DiskAt(disk, file_op.final) = file_op.bytes
           ELSE DiskAt(disk, file_op.final) \in {"absent", file_op.before}

\* the operations of FileService that take a relative path
FileServiceOps ==
    {"read_file_bytes_sync", "file_exists_async", "directory_exists_async",
     "remove_directory_async", "create_directory_async",
     "create_placeholder_file_async", "save_uploaded_file_async",
     "save_uploaded_directory_async"}

\* where the operating system takes root_dir / arg
Escapes(arg) ==
    ~IsPrefix(RootDir, Resolve(IF IsAbsolute(arg) THEN Tail(arg) ELSE RootDir \o arg))

\* C14: an operation of FileService given a relative path that resolves
\* outside the root (by "..", as an absolute path, through a link) raises
\* (the two existence probes answer False instead) and reads or writes
\* nothing; no operation reads or writes a place outside the root.
C14_EscapeRejectedUntouched ==
    file_op.name \in FileServiceOps =>
        /\ Escapes(file_op.arg) =>
              /\ file_op.touched = {}
              /\ \/ file_op.result = "ValueError"
                 \/ /\ file_op.name \in {"file_exists_async", "directory_exists_async"}
                    /\ file_op.result = "False"
        /\ \A p \in file_op.touched : IsPrefix(RootDir, p)

\* the user whose session holds the token
Holder(tok) ==
    CHOOSE u \in DOMAIN user_sessions : LookupInSession(user_sessions[u], tok).hit

\* the token is one of working_directory.files
InDirectory(u, tok) == FirstWithToken(user_sessions[u].working_files, tok) = <<>>

C16_ReplacedTokensDiscarded ==
    \A tok \in discarded : GetDownloadableFileInfo(tok) = None

\* a working directory with a file has taken the place of another with a
\* file, and its own token resolves
C16_Witness ==
    /\ discarded # {}
    /\ "alice" \in DOMAIN user_sessions
    /\ DirTokens(user_sessions["alice"]) # {}
    /\ \A tok \in DirTokens(user_sessions["alice"]) : GetDownloadableFileInfo(tok) # None

\* C17: logout_user removes the user's session whatever its
\* last_activity_time; a user without a session gets one only by an
\* attempt_login that returns True; and an attempt_login for a user without
\* a session returns True at once.  Hence the next attempt_login after a
\* logout returns True however recent the HTTP activity of the session that
\* was logged out.
C17_LoginAfterLogout ==
    [][\A u \in Users :
          /\ LogoutUser(u) => u \notin DOMAIN user_sessions'
          /\ (u \notin DOMAIN user_sessions /\ u \in DOMAIN user_sessions') =>
                \E c \in Calls :
                    /\ logins[c].st = "waiting" /\ logins[c].user = u
                    /\ logins'[c].st = "done" /\ logins'[c].res
          /\ \A c \in Calls :
                (/\ logins[c].st = "waiting" /\ logins[c].user = u
                 /\ logins'[c].st = "done"
                 /\ u \notin DOMAIN user_sessions)
                    => (logins'[c].res /\ u \in DOMAIN user_sessions')]_vars

\* two logins of one user have both returned True inside one idle window:
\* the session of the first was logged out before the second ran
C17_Witness ==
    /\ clock < InactivityTimeout
    /\ \E c, d \in Calls :
          /\ c # d
          /\ logins[c].st = "done" /\ logins[d].st = "done"
          /\ logins[c].user = logins[d].user
          /\ logins[c].res /\ logins[d].res

\* C18: a POST to /api/upload-project, /api/upload-standards or
\* /api/upload-files whose form is well formed, whose target directory
\* exists and whose overwrite flag is false is answered with status 409.
C18_ExistingTargetConflict ==
    (/\ file_op.name \in Endpoints
     /\ ValidForm(file_op.name, file_op.arg)
     /\ file_op.existed
     /\ ~file_op.overwrite)
        => file_op.status = 409

\* C19: a completion task that ended on a failure of the upstream call or
\* of the stream, with the WebSocket open, has sent a {type: error} event.
C19_FailureSurfacedAsError ==
    \A t \in DOMAIN tasks :
        (ws_open /\ tasks[t].how \in {"upstream_error", "stream_error"})
            => tasks[t].errs >= 1

\* C20: a file under the spec root is accepted for the index (_get_file_info
\* returns a record for it) exactly when its extension is one of pdf, md,
\* docx, txt, ofd, ceb, jpeg, jpg, png; and the rows of the spec root are
\* rows of such files.
C20_SpecRootExtensions ==
    LET accepted == {"pdf", "md", "docx", "txt", "ofd", "ceb", "jpeg", "jpg", "png"}
    IN /\ \A f \in DOMAIN fs :
             f[1] = "spec" =>
                 ((GetFileInfo(fs, f[1], f[2]) # None) <=> (Ext(f[2]) \in accepted))
       /\ \A r \in table :
             r.document_type = "spec" => Ext(r.relative_path) \in accepted

\* C21: whenever connect_websocket attaches a socket (accept has returned),
\* the session it tested is in the manager at that moment, with the session
\* id the connection asked for, and holds this socket: logout, login and
\* the idle sweep cannot come between the test and the attachment.
C21_AttachedToLiveSession ==
    [][\A c \in ConnIds :
          (conns[c].st = "accepting" /\ conns'[c].st = "served") =>
              /\ conns[c].user \in DOMAIN user_sessions'
              /\ user_sessions'[conns[c].user].session_id = conns[c].sid
              /\ user_sessions'[conns[c].user].websocket = c
              /\ user_sessions'[conns[c].user].is_websocket_connected]_vars

\* one connection is served and attached to its session while another was
\* turned away by connect_websocket: its session went between the lookup
\* of the username and the test under the lock
C21_Witness ==
    \E c, d \in ConnIds :
        /\ conns[c].st = "served"
        /\ conns[c].user \in DOMAIN user_sessions
        /\ user_sessions[conns[c].user].websocket = c
        /\ conns[d].how = "rejected"

\* C22: when the handler of a connection detaches (disconnect_websocket),
\* the socket of another connection that a session holds stays attached.
C22_DetachOnlyOwnSocket ==
    [][\A d \in ConnIds :
          (conns[d].st = "closing" /\ conns'[d].st = "done") =>
              \A u \in DOMAIN user_sessions :
                  user_sessions[u].websocket \notin {0, d} =>
                      /\ u \in DOMAIN user_sessions'
                      /\ user_sessions'[u].websocket = user_sessions[u].websocket
                      /\ user_sessions'[u].is_websocket_connected]_vars

\* C23: a connection that is open and served belongs to a session that is
\* in the manager: when a session is removed or replaced, the socket
\* attached to it is closed.
C23_ServedSocketHasSession ==
    \A c \in ConnIds :
        conns[c].st = "served" =>
            /\ conns[c].user \in DOMAIN user_sessions
            /\ user_sessions[conns[c].user].session_id = conns[c].sid

\* C26: a burst of create/modify events on one path (each event less than
\* the cooldown after the one before) that then settles leads the debounce
\* loop to take that path for an upsert at most once.
C26_OneUpsertPerBurst ==
    \A k \in DOMAIN burst : burst[k].upserts <= 1

\* a burst of two events or more was upserted once
C26_Witness ==
    \E k \in DOMAIN burst :
        /\ burst[k].events >= 2 /\ burst[k].upserts = 1
        /\ \E r \in table : /\ r.document_type = k[1] /\ r.relative_path = k[2]
                            /\ k \in DOMAIN fs /\ r.md5_hash = Md5(fs[k])
        /\ loop_pc = "sleep"

\* the upsert whose file was read and whose row is not yet written is of file k
InFlight(k) ==
    /\ read_info # None
    /\ read_info[1].document_type = k[1] /\ read_info[1].relative_path = k[2]

\* C25: once the delete of a removed file has run and no upsert of its
\* path is pending or in flight, the index holds no row of that file: an
\* upsert that read the file before it was removed does not bring the row
\* back after the delete.
C25_DeletedRowStaysGone ==
    \A k \in Files :
        (/\ Watching /\ k \notin DOMAIN fs
         /\ k \notin Scheduled(deletes)
         /\ k \notin DOMAIN pending_updates /\ k \notin batch /\ ~InFlight(k))
            => ~\E r \in table : r.document_type = k[1] /\ r.relative_path = k[2]

\* C24: every write of pending_updates is made holding the lock of the
\* service: while the debounce loop is inside its critical section, the
\* map changes only by the loop's own pop, and the drain is never broken
\* off by a callback of the watcher.
C24_QueueUnderLock ==
    [][/\ (LockHeld /\ pending_updates' # pending_updates)
            => (loop_pc = "pop" /\ loop_pc' \in {"sleep", "upsert"})
       /\ loop_pc' # "crashed"]_vars

\* C27: at shutdown every path still waiting in pending_updates is
\* upserted before the connection is closed: the row of each such file
\* that can be read is in the table when the service is closed.
C27_PendingFlushedAtShutdown ==
    [][(loop_pc # "closed" /\ loop_pc' = "closed") =>
          \A k \in DOMAIN pending_updates :
              GetFileInfo(fs, k[1], k[2]) # None =>
                  GetFileInfo(fs, k[1], k[2])[1] \in table']_vars

\* C28: when the stop flag is set and the task is not cancelled, or the
\* socket has left the connected state, the completion exits at the next
\* chunk of the stream and sends no agent_message and no agent_thought
\* before it does.
C28_StopEndsEmission ==
    [][\A t \in DOMAIN tasks :
          (/\ ShouldAbort(stop_event, ws_open) /\ ~tasks[t].cancel
           /\ tasks[t].pc \in {"stream", "tools"})
             => /\ ~(ToolsReturn(t) /\ ws_open)
                /\ \A kind \in {"content", "finish_tool_calls", "finish_stop"} :
                      Chunk(t, kind) => /\ agent_messages' = agent_messages
                                        /\ tasks'[t].pc = "done"]_vars

\* the places of history that hold the tool message of call id
ToolMessagesOf(h, id) == {j \in DOMAIN h : h[j].role = "tool" /\ h[j].id = id}

\* the places of history that hold an assistant message asking for call id
AssistantCallsOf(h, id) ==
    {a \in DOMAIN h : /\ h[a].role = "assistant"
                      /\ \E k \in DOMAIN h[a].calls : h[a].calls[k].id = id}

\* C29: when the tools of a finish_reason=tool_calls response have run,
\* the history holds for every call of the response, also one with bad
\* arguments or a raising tool, exactly one tool message with the call's
\* id, after the assistant message that asked for it, and the task goes on
\* to the next upstream call (unless the depth guard ends the turn).
C29_OneToolMessagePerCall ==
    [][\A t \in DOMAIN tasks :
          ToolsReturn(t) =>
              /\ \A i \in DOMAIN tasks[t].calls :
                    LET id == tasks[t].calls[i].id
                    IN /\ Cardinality(ToolMessagesOf(history', id)) = 1
                       /\ \E a \in AssistantCallsOf(history', id) :
                             \A j \in ToolMessagesOf(history', id) : a < j
              /\ tasks'[t].pc = "create" \/ TooDeep(tasks[t].depth + 1)]_vars

\* C30: from the moment start_conversation has been handled until the
\* next query is received the history is the system message alone: the
\* only step that changes it is the query that appends the user message.
C30_HistoryResetHolds ==
    [][(history = <<SystemMessage>> /\ conversation_id # "none")
          => history' \in {history, Append(history, UserMessage)}]_vars

\* C31: every stop_chat_stream message is answered with
\* stop_request_processed and run() goes on receiving, also when no
\* completion task was ever started on the connection.
C31_StopAlwaysAnswered ==
    [][RecvStop => (last_reply' = "stop_request_processed" /\ run_state' = "loop")]_vars

\* C34: no two sessions of the map hold the same session id at one time,
\* so a session id names at most one user.
C34_SessionIdsUnique ==
    \A u \in DOMAIN user_sessions, v \in DOMAIN user_sessions :
        u # v => user_sessions[u].session_id # user_sessions[v].session_id

\* C35: process_inactive_sessions removes every session whose idle time
\* (now - last_activity_time) has reached the timeout, so that right after a
\* sweep no such session is in the map, and it closes the WebSocket a
\* removed session holds with code 1001; a session inside the idle window
\* stays in the map unchanged and its WebSocket stays open.
C35_IdleSweep ==
    /\ [](swept = <<"sessions", clock>> =>
            \A u \in DOMAIN user_sessions :
                clock - user_sessions[u].last_activity_time < InactivityTimeout)
    /\ [][Sweep =>
            \A u \in DOMAIN user_sessions :
                LET ws == user_sessions[u].websocket
                IN IF (clock - user_sessions[u].last_activity_time) >= InactivityTimeout
                   THEN /\ u \notin DOMAIN user_sessions'
                        /\ (ws # 0 /\ conns[ws].st = "served") =>
                              (conns'[ws].st = "closing" /\ conns'[ws].code = 1001)
                   ELSE /\ u \in DOMAIN user_sessions'
                        /\ user_sessions'[u] = user_sessions[u]
                        /\ ws # 0 => conns'[ws] = conns[ws]]_vars

\* a sweep has just removed alice's idle session and closed the socket it
\* held, and has left bob's session, which is inside the idle window
C35_Witness ==
    /\ swept = <<"sessions", clock>>
    /\ "alice" \notin DOMAIN user_sessions
    /\ "bob" \in DOMAIN user_sessions
    /\ conns[1].st = "closing" /\ conns[1].code = 1001

\* C33: the logout of the idle branch of verify_active_session removes only
\* the session the request examined: a session with another session id,
\* made by a login that completed after the idle test, stays in the map.
C33_LogoutOnlyExamined ==
    [][VerifyLogout =>
          ((/\ verify.user \in DOMAIN user_sessions
            /\ user_sessions[verify.user].session_id # verify.sid)
           => verify.user \in DOMAIN user_sessions')]_vars


\* the three conditions of an admission, and the idle case, for a request
\* with cookie session (u, sid) in the present state
SessionValid(u, sid) ==
    /\ u \in DOMAIN user_sessions
    /\ user_sessions[u].session_id = sid
    /\ clock - user_sessions[u].last_activity_time < InactivityTimeout

SessionIdle(u, sid) ==
    /\ u \in DOMAIN user_sessions
    /\ user_sessions[u].session_id = sid
    /\ clock - user_sessions[u].last_activity_time >= InactivityTimeout

\* no session that stays in the map has its last_activity_time changed
NoStamp ==
    \A w \in DOMAIN user_sessions \cap DOMAIN user_sessions' :
        user_sessions'[w].last_activity_time = user_sessions[w].last_activity_time

\* C32: verify_active_session admits a request exactly when, as it tests
\* the session, the cookie's user has a session, that session's id is the
\* cookie's and now - last_activity_time is below the timeout; in every
\* other case the answer is 401; in the idle case the user is logged out
\* and the cookie session cleared as well; and no request that is not
\* admitted stamps last_activity_time.
C32_AdmitsOnlyActiveSession ==
    [][/\ \A u \in Users, sid \in SessionIds :
             VerifyAtOnce(u, sid) =>
                /\ (verify'.res = "admitted") <=> SessionValid(u, sid)
                /\ ~SessionValid(u, sid) => (verify'.res = "401" /\ NoStamp)
                /\ SessionIdle(u, sid) =>
                      (u \notin DOMAIN user_sessions' /\ verify'.cleared)
       /\ VerifyNoCookie => (verify'.res = "401" /\ user_sessions' = user_sessions)
       /\ VerifyRead =>
             /\ (verify'.st = "stamp") <=> SessionValid(verify.user, verify.sid)
             /\ (verify'.st = "logout") <=> SessionIdle(verify.user, verify.sid)
             /\ verify'.st \notin {"stamp", "logout"} =>
                   (verify'.st = "done" /\ verify'.res = "401")
             /\ user_sessions' = user_sessions
       /\ VerifyLogout =>
             /\ verify'.res = "401" /\ verify'.cleared /\ NoStamp
             /\ verify.user \notin DOMAIN user_sessions'
       /\ VerifyStamp => verify'.res = "admitted"]_vars

\* a request that waited for the lock found its session idle: it was
\* answered 401 with the cookie session cleared and the user logged out
C32_Witness ==
    /\ verify.st = "done" /\ verify.branch = "idle"
    /\ verify.res = "401" /\ verify.cleared
    /\ verify.user \notin DOMAIN user_sessions


\* C36: right after cleanup_expired_opened_files has run at time now, no
\* session holds an opened file or a working directory whose expire_at is
\* at or before now; the run keeps every entry and directory that has not
\* expired, in place and unchanged, and touches nothing else of a session.
C36_ExpiredSweptUnexpiredKept ==
    /\ [](swept = <<"files", clock>> =>
            \A u \in DOMAIN user_sessions :
                /\ \A i \in 1..Len(user_sessions[u].working_files) :
                      clock < user_sessions[u].working_files[i].expire_at
                /\ user_sessions[u].working_directory # <<>> =>
                      clock < user_sessions[u].working_directory[1].expire_at)
    /\ [][SweepFiles =>
            /\ DOMAIN user_sessions' = DOMAIN user_sessions
            /\ \A u \in DOMAIN user_sessions :
                  LET old == user_sessions[u]
                  IN user_sessions'[u] =
                        [old EXCEPT
                           !.working_files =
                               SelectSeq(@, LAMBDA e : ~(e.expire_at <= clock)),
                           !.working_directory =
                               IF @ # <<>> /\ @[1].expire_at <= clock
                               THEN <<>> ELSE @]]_vars

\* the job has just run: alice's expired file and directory are gone and
\* bob's file, opened later and not expired, is still in his working set
C36_Witness ==
    /\ swept = <<"files", clock>>
    /\ {"alice", "bob"} \subseteq DOMAIN user_sessions
    /\ user_sessions["alice"].working_files = <<>>
    /\ user_sessions["alice"].working_directory = <<>>
    /\ user_sessions["alice"].last_activity_time = 0
    /\ next_token = 2 /\ discarded = {}
    /\ Len(user_sessions["bob"].working_files) = 1
    /\ user_sessions["bob"].working_files[1].token = 2
    /\ user_sessions["bob"].working_directory = <<>>


\* C37: a connect_websocket call that finds no session of that user with
\* that session id closes the WebSocket with code 1008 (reason "Invalid
\* session", how = "rejected") and changes nothing the manager holds: the
\* session map, the other connections and the counters stay as they were.
C37_RejectedConnectChangesNothing ==
    [][\A c \in ConnIds :
          (/\ WsConnect(c)
           /\ ~(/\ conns[c].user \in DOMAIN user_sessions
                /\ user_sessions[conns[c].user].session_id = conns[c].sid))
          => /\ conns'[c] = [conns[c] EXCEPT !.st = "done", !.how = "rejected",
                                             !.code = 1008]
             /\ \A d \in ConnIds \ {c} : conns'[d] = conns[d]
             /\ user_sessions' = user_sessions
             /\ <<clock, next_token, logins, discarded>>' =
                   <<clock, next_token, logins, discarded>>]_vars

\* a connection was turned away with 1008 because the user's session now
\* carries another session id, and that session is in the map
C37_Witness ==
    \E c \in ConnIds :
        /\ conns[c].how = "rejected" /\ conns[c].code = 1008
        /\ conns[c].user \in DOMAIN user_sessions
        /\ user_sessions[conns[c].user].session_id # conns[c].sid


\* C38: at every moment two sessions that edit a file (non-empty
\* file_path) hold the same file_key exactly when they hold the same
\* file_path, so that get_editing_file of a key in use has one answer.
C38_OneKeyPerEditedPath ==
    /\ \A u \in DOMAIN user_sessions, v \in DOMAIN user_sessions :
          LET eu == user_sessions[u].editing_file
              ev == user_sessions[v].editing_file
          IN (eu.file_path # "" /\ ev.file_path # "") =>
                ((eu.file_path = ev.file_path) <=> (eu.file_key = ev.file_key))
    /\ \A k \in 1..next_token : Cardinality(GetEditingFile(k)) = 1

\* alice and bob edit the same document under one key while a second key
\* has been made for another document
C38_Witness ==
    /\ {"alice", "bob"} \subseteq DOMAIN user_sessions
    /\ user_sessions["alice"].editing_file.file_path # ""
    /\ user_sessions["alice"].editing_file = user_sessions["bob"].editing_file
    /\ user_sessions["alice"].editing_file.file_key = 2


\* C39: when the save of one file of save_uploaded_directory_async has
\* failed, none of the paths saved before it by that call holds a file any
\* more and the caller gets the error of the failed save.
C39_FailedUploadRolledBack ==
    ("cause" \in DOMAIN file_op /\ file_op.cause \notin {"ok", "none"}) =>
        /\ file_op.result = file_op.cause
        /\ \A i \in 1..Len(file_op.saved_files) :
              ~IsFile(DiskAt(disk, file_op.saved_files[i]))


\* C40: the id a tool call is put together with is the id the upstream
\* sent for its index whenever it sent one, also after later deltas of
\* that index that carry no id, and an id is made up at most once for a
\* tool call.
C40_UpstreamIdKept ==
    \A index \in DOMAIN tool_call_chunks :
        /\ index \in DOMAIN supplied =>
              tool_call_chunks[index].id = supplied[index]
        /\ index \in DOMAIN synthesized => synthesized[index] <= 1

====
